---- MODULE Spec2Model ----
(***************************************************************************)
(* Tool-call orchestration and bridging engine of backend/app.py:          *)
(* chat_with_tools (startConversation), tool_reply (resolveOne) and        *)
(* tool_reply_batch (resolveBatch) over the pending_conversations table.   *)
(*                                                                         *)
(* A request handler blocks only in its call to the completion service.    *)
(* Each action below is one handler segment: from the arrival of the       *)
(* request, or from the answer of the completion service, up to the next   *)
(* completion-service call or to the return of the handler.                *)
(***************************************************************************)
EXTENDS Integers, Sequences, FiniteSets, TLC

VARIABLES
    pending_conversations,  \* session id -> conversation object, or NoConv
    heap,                   \* the conversation objects
    reqs,                   \* the request handlers: locals, position, reply
    nextId,                 \* the next tool-call id the completion service issues
    arrived,                \* requests received so far (counted in SpecConc only)
    invocations,            \* completion-service calls of the conversation of
                            \* each session (counted in SpecChain and SpecLoop)
    stat                    \* a call of the statistical engine: its arguments
                            \* and what it returned (used in SpecStat only)

vars == <<pending_conversations, heap, reqs, nextId, arrived, invocations, stat>>

(***************************************************************************)
(* Bounds and program constants                                            *)
(***************************************************************************)
MaxIds == 2            \* tool-call ids the completion service issues in a run
MaxCalls == 2          \* tool calls in one assistant turn
MaxReq == 2            \* request slots (requests in flight in SpecConc)
MaxBatch == 2          \* items in one resolveBatch request
MaxInvocations == 6    \* the invocation counters saturate here
ChainIds == 5          \* tool-call ids issued in a run of SpecChain
MaxArrivals == 3       \* requests received in a run of SpecConc
LoopIds == 5           \* tool-call ids issued in a run of SpecLoop
MaxRows == 5           \* records of a stream fetched for the statistical engine
MaxTime == 5           \* largest timestamp of a record
FetchRows == 11        \* items of the stream fetched in a run of SpecFetch
MaxEvents == 4         \* events of a session in a run of SpecTrace
MaxEventTime == 4      \* largest timestamp of an event
MaxGps == 3            \* items of the gps stream of a session in SpecMetric
MaxItems == 2          \* items of a stream, events and gaps of a session in SpecMetric

max_iterations == 5
MinRecords == 10       \* if len(rows) < 10: insufficient data

SessionSeq == <<"A", "B">>
Sessions == {SessionSeq[i] : i \in 1..Len(SessionSeq)}
SessionIdx(s) == CHOOSE i \in 1..Len(SessionSeq) : SessionSeq[i] = s
Slots == 1..MaxReq
ObjIds == 1..(Len(SessionSeq) + MaxReq)

None == "None"
NaN == "NaN"
Results == {"r1", NaN}

Min(a, b) == IF a < b THEN a ELSE b
Max(a, b) == IF a > b THEN a ELSE b

(***************************************************************************)
(* Messages of a transcript                                                *)
(***************************************************************************)
Message(role, content, tool_calls, tool_call_id, name) ==
    [role |-> role, content |-> content, tool_calls |-> tool_calls,
     tool_call_id |-> tool_call_id, name |-> name]

SystemMessage == Message("system", "prompt", <<>>, 0, "")
UserMessage == Message("user", "question", <<>>, 0, "")
AssistantMessage(resp) == Message("assistant", resp.content, resp.tool_calls, 0, "")
ToolMessage(id, name, content) == Message("tool", content, <<>>, id, name)

\* The histories a caller submits.
Histories == {<<UserMessage>>}

(***************************************************************************)
(* The completion service: what it may answer                              *)
(***************************************************************************)
BridgeTool == "telemetry_slice"
LocalTool == "metrics_compute"
UnknownTool == "no_such_tool"

\* name, the sessionId argument, and whether the arguments make the tool raise
LocalShapes ==
    {[name |-> LocalTool, sessionId |-> "A", raises |-> FALSE]}
FailingShapes ==
    {[name |-> LocalTool, sessionId |-> "A", raises |-> TRUE],
     [name |-> UnknownTool, sessionId |-> "A", raises |-> FALSE]}
BridgeShapes ==
    {[name |-> BridgeTool, sessionId |-> s, raises |-> FALSE] : s \in Sessions}

CallShapes == LocalShapes \cup BridgeShapes

ShapeSeqs(shapes) == UNION {[1..n -> shapes] : n \in 1..MaxCalls}

WithIds(shapes, n) ==
    [i \in 1..Len(shapes) |->
        [id |-> n + i - 1, name |-> shapes[i].name,
         sessionId |-> shapes[i].sessionId, raises |-> shapes[i].raises]]

FinalResponses == {[content |-> c, tool_calls |-> <<>>] : c \in {"", "answer"}}

\* The service issues fresh ids, n first, and at most ids of them in a run.
ToolResponses(shapes, ids, n) ==
    {[content |-> c, tool_calls |-> WithIds(sh, n)] :
        c \in {""}, sh \in {x \in ShapeSeqs(shapes) : n + Len(x) - 1 <= ids}}

Responses(shapes, ids, n) == FinalResponses \cup ToolResponses(shapes, ids, n)

(***************************************************************************)
(* Conversation objects (the dict values of pending_conversations)         *)
(***************************************************************************)
NoConv == 0

FreeObj == [live |-> FALSE, messages |-> <<>>, pending_calls |-> <<>>,
            iteration |-> 0, tool_execution_log |-> <<>>]

Alloc(h) == CHOOSE o \in ObjIds : ~h[o].live /\ \A p \in ObjIds : ~h[p].live => o <= p

PendingIds(calls) == {calls[i].call_id : i \in 1..Len(calls)}

\* pending_calls[tool_call.id] = {...}: insertion-ordered dict assignment
PutCall(calls, tc) ==
    LET entry == [call_id |-> tc.id, tool |-> tc.name, params |-> tc.sessionId,
                  result |-> None]
    IN IF tc.id \in PendingIds(calls)
       THEN [i \in 1..Len(calls) |-> IF calls[i].call_id = tc.id THEN entry ELSE calls[i]]
       ELSE Append(calls, entry)

SetResult(calls, id, res) ==
    [i \in 1..Len(calls) |->
        IF calls[i].call_id = id THEN [calls[i] EXCEPT !.result = res] ELSE calls[i]]

\* A slip of the unresolved-calls scan: only the call registered last is looked at.
UnresolvedLastOnly(calls) == {i \in {Len(calls)} \ {0} : calls[i].result = None}

\* unresolved_calls: the pending calls whose result is None
Unresolved(calls) == {i \in 1..Len(calls) : calls[i].result = None}

(***************************************************************************)
(* Replies                                                                 *)
(***************************************************************************)
Reply(status, text, calls, log) ==
    [status |-> status, text |-> text, calls |-> calls, log |-> log]

NoReply == Reply("none", "", <<>>, <<>>)

\* except Exception as e: raise HTTPException(status_code=500, detail=str(e))
INTERNAL_FAILURE == "http500"

APOLOGY == "I apologize, but I encountered an issue processing your request."
ANALYSIS_COMPLETED == "Analysis completed"

RECURSIVE LastAssistantContent(_, _, _)
LastAssistantContent(msgs, i, fallback) ==
    IF i = 0 THEN fallback
    ELSE IF msgs[i].role = "assistant" /\ msgs[i].content # ""
         THEN msgs[i].content
         ELSE LastAssistantContent(msgs, i - 1, fallback)

(***************************************************************************)
(* The state a handler works on: the shared table and heap, and its locals *)
(***************************************************************************)
Msgs(st) == IF st.conv = NoConv THEN st.messages ELSE st.heap[st.conv].messages

AppendMsg(st, m) ==
    IF st.conv = NoConv
    THEN [st EXCEPT !.messages = Append(@, m)]
    ELSE [st EXCEPT !.heap[st.conv].messages = Append(@, m)]

\* A slip of the dispatch: the payload of a raising tool is taken for a result.
ExecToolUncaught(kind, tc) ==
    IF tc.name = LocalTool THEN "result"
    ELSE IF kind = "batch" THEN "status_error" ELSE "not_implemented"

\* A slip of the dispatch: a name that is not registered is dispatched like
\* the local tool.
ExecToolAnyName(kind, tc) == IF tc.raises THEN "status_error" ELSE "result"

\* The tool dispatch of the three handlers: the payload of a non-bridged call.
ExecTool(kind, tc) ==
    IF tc.name = LocalTool
    THEN IF tc.raises THEN "status_error" ELSE "result"
    ELSE IF kind = "batch" THEN "status_error" ELSE "not_implemented"

LogEntry(tc) == [tool |-> tc.name, id |-> tc.id]

\* A slip of the dispatch: a call whose tool raised gets no tool message.
RunLocalIfOk(st, tc) ==
    IF tc.raises THEN [st EXCEPT !.log = Append(@, LogEntry(tc))]
    ELSE AppendMsg([st EXCEPT !.log = Append(@, LogEntry(tc))],
                   ToolMessage(tc.id, tc.name, ExecTool(st.kind, tc)))

\* A non-bridged call: log it and append its tool message.
RunLocal(st, tc) ==
    AppendMsg([st EXCEPT !.log = Append(@, LogEntry(tc))],
              ToolMessage(tc.id, tc.name, ExecTool(st.kind, tc)))

\* A bridged call: lazily create the entry of tool_args["sessionId"] and
\* register the call in it.
Register(st, tc) ==
    LET sid == tc.sessionId
        st1 == IF st.table[sid] = NoConv
               THEN LET o == Alloc(st.heap)
                    IN [st EXCEPT !.heap[o] =
                                     [live |-> TRUE, messages |-> Msgs(st),
                                      pending_calls |-> <<>>,
                                      iteration |-> st.iteration,
                                      tool_execution_log |-> st.log],
                                  !.table[sid] = o]
               ELSE [st EXCEPT !.heap[st.table[sid]].tool_execution_log = @ \o st.log]
    IN [st1 EXCEPT !.heap[st1.table[sid]].pending_calls = PutCall(@, tc)]

BatchCalls(calls) ==
    [i \in 1..Len(calls) |->
        [call_id |-> calls[i].call_id, tool |-> calls[i].tool, params |-> calls[i].params]]

\* chat_with_tools: the tool calls of one assistant turn, from the i-th on.
RECURSIVE StartTurn(_, _, _)
StartTurn(st, calls, i) ==
    IF i > Len(calls) THEN st
    ELSE IF calls[i].name = BridgeTool
         THEN LET st1 == Register(st, calls[i])
                  pend == st1.heap[st1.table[calls[i].sessionId]].pending_calls
                  remaining_tool_calls ==
                      {j \in 1..Len(calls) : calls[j].id \notin PendingIds(pend)}
              IN IF remaining_tool_calls = {}
                 THEN [st1 EXCEPT !.reply =
                          Reply("batch_bridge_request", "", BatchCalls(pend), <<>>)]
                 ELSE StartTurn(st1, calls, i + 1)
         ELSE StartTurn(RunLocal(st, calls[i]), calls, i + 1)

\* tool_reply / tool_reply_batch: the tool calls of one assistant turn.
RECURSIVE ResumeTurn(_, _, _)
ResumeTurn(st, calls, i) ==
    IF i > Len(calls) THEN st
    ELSE IF calls[i].name = BridgeTool
         THEN [Register(st, calls[i]) EXCEPT !.reply =
                  Reply("bridge_request", "New bridge request", <<>>, <<>>)]
         ELSE ResumeTurn(RunLocal(st, calls[i]), calls, i + 1)

Turn(st, calls) ==
    IF st.kind = "start" THEN StartTurn(st, calls, 1) ELSE ResumeTurn(st, calls, 1)

\* The end of a handler once its loop is over.
Finish(st) ==
    IF st.kind = "start"
    THEN [st EXCEPT !.reply =
             Reply("final", LastAssistantContent(Msgs(st), Len(Msgs(st)), APOLOGY),
                   <<>>, st.log)]
    ELSE LET fallback == IF st.kind = "batch" THEN ANALYSIS_COMPLETED ELSE APOLOGY
             text == LastAssistantContent(Msgs(st), Len(Msgs(st)), fallback)
             preserved_log == st.heap[st.conv].tool_execution_log
         IN IF st.table[st.session] = NoConv
            THEN [st EXCEPT !.reply = Reply("http500", "KeyError", <<>>, <<>>)]
            ELSE [st EXCEPT !.table[st.session] = NoConv,
                            !.reply = Reply("completed", text, <<>>,
                                            preserved_log \o st.log)]

\* A slip of the loop condition: one more round is allowed.
WithinCapInclusive(iteration) == iteration <= max_iterations

\* while iteration < max_iterations
WithinCap(iteration) == iteration < max_iterations

\* while iteration < max_iterations: iteration += 1; call the completion service
LoopHead(st) ==
    IF WithinCap(st.iteration)
    THEN [st EXCEPT !.iteration = @ + 1, !.pc = "llm"]
    ELSE Finish(st)

\* The answer of the completion service is appended and its tool calls are
\* processed; the loop goes on unless the handler returned.
AfterResponse(st, resp) ==
    LET st1 == AppendMsg(st, AssistantMessage(resp))
    IN IF resp.tool_calls = <<>> THEN Finish(st1)
       ELSE LET st2 == Turn(st1, resp.tool_calls)
            IN IF st2.reply # NoReply THEN st2 ELSE LoopHead(st2)

(***************************************************************************)
(* Requests                                                                *)
(***************************************************************************)
IdleReq == [kind |-> "idle", session |-> "A", pc |-> "idle", messages |-> <<>>,
            conv |-> NoConv, iteration |-> 0, log |-> <<>>, reply |-> NoReply,
            guarded |-> FALSE, cleaned |-> FALSE,
     skipped |-> FALSE, call_id |-> 0]

Active(r) == reqs[r].pc = "llm"

\* Objects no table entry and no running request refers to are reclaimed, and
\* the others are renamed: the entry of the i-th session is object i, an
\* object only requests hold is named after the lowest slot holding it.
Used(table, rq) ==
    ({table[s] : s \in Sessions} \cup {rq[r].conv : r \in Slots}) \ {NoConv}

NewId(o, table, rq) ==
    IF \E s \in Sessions : table[s] = o
    THEN SessionIdx(CHOOSE s \in Sessions : table[s] = o)
    ELSE Len(SessionSeq)
         + (CHOOSE r \in Slots : rq[r].conv = o /\ \A q \in Slots : rq[q].conv = o => r <= q)

Collect(h, table, rq) ==
    [n \in ObjIds |->
        IF \E o \in Used(table, rq) : NewId(o, table, rq) = n
        THEN h[CHOOSE o \in Used(table, rq) : NewId(o, table, rq) = n]
        ELSE FreeObj]

Work(r, kind, s) ==
    [heap |-> heap, table |-> pending_conversations, kind |-> kind, session |-> s,
     pc |-> "run", messages |-> <<>>, conv |-> NoConv, iteration |-> 0,
     log |-> <<>>, reply |-> NoReply, guarded |-> FALSE, cleaned |-> FALSE,
     skipped |-> FALSE, call_id |-> 0]

Resume(r) ==
    [heap |-> heap, table |-> pending_conversations, kind |-> reqs[r].kind,
     session |-> reqs[r].session, pc |-> "run", messages |-> reqs[r].messages,
     conv |-> reqs[r].conv, iteration |-> reqs[r].iteration, log |-> reqs[r].log,
     reply |-> NoReply, guarded |-> reqs[r].guarded,
     cleaned |-> reqs[r].cleaned, skipped |-> reqs[r].skipped,
     call_id |-> reqs[r].call_id]

\* Write a handler segment's outcome back: the handler is either blocked in
\* its next completion-service call, or (tool_reply under SpecRace) between
\* its store and its check, or has returned st.reply.
Commit(r, st) ==
    LET rec == IF st.pc \in {"llm", "stored"} /\ st.reply = NoReply
               THEN [kind |-> st.kind, session |-> st.session, pc |-> st.pc,
                     messages |-> st.messages, conv |-> st.conv,
                     iteration |-> st.iteration, log |-> st.log, reply |-> NoReply,
                     guarded |-> st.guarded, cleaned |-> st.cleaned,
                     skipped |-> st.skipped, call_id |-> st.call_id]
               ELSE [kind |-> st.kind, session |-> st.session, pc |-> "returned",
                     messages |-> <<>>, conv |-> NoConv,
                     iteration |-> 0, log |-> <<>>, reply |-> st.reply,
                     guarded |-> FALSE, cleaned |-> FALSE,
     skipped |-> FALSE, call_id |-> 0]
        rq == [reqs EXCEPT ![r] = rec]
    IN /\ reqs' = [q \in Slots |->
                      IF rq[q].conv = NoConv THEN rq[q]
                      ELSE [rq[q] EXCEPT !.conv = NewId(@, st.table, rq)]]
       /\ pending_conversations' =
              [s \in Sessions |->
                  IF st.table[s] = NoConv THEN NoConv ELSE SessionIdx(s)]
       /\ heap' = Collect(st.heap, st.table, rq)

(***************************************************************************)
(* chat_with_tools                                                         *)
(***************************************************************************)
\* A slip of the clean-up: the entry of the session is left in the table.
DiscardNothing(table, s) == table

\* if req.sessionId in pending_conversations: del pending_conversations[...]
Discard(table, s) == [table EXCEPT ![s] = NoConv]

StartConversation(r, s, history) ==
    LET st0 == [Work(r, "start", s) EXCEPT
                   !.table = Discard(pending_conversations, s),
                   !.cleaned = pending_conversations[s] # NoConv,
                   !.messages = <<SystemMessage>> \o history]
        st == LoopHead(st0)
    IN /\ Commit(r, st)
       /\ UNCHANGED nextId

\* The completion service answers request r: lines 1416-1558 of
\* chat_with_tools and their copies in tool_reply and tool_reply_batch.
Complete(r, resp) ==
    LET st == AfterResponse(Resume(r), resp)
    IN /\ Commit(r, st)
       /\ nextId' = nextId + Len(resp.tool_calls)

CompleteStart(r, shapes, ids) ==
    /\ Active(r) /\ reqs[r].kind = "start"
    /\ \E resp \in Responses(shapes, ids, nextId) : Complete(r, resp)

CompleteOne(r, shapes, ids) ==
    /\ Active(r) /\ reqs[r].kind = "one"
    /\ \E resp \in Responses(shapes, ids, nextId) : Complete(r, resp)

CompleteBatch(r, shapes, ids) ==
    /\ Active(r) /\ reqs[r].kind = "batch"
    /\ \E resp \in Responses(shapes, ids, nextId) : Complete(r, resp)

\* The completion-service call raises: the handler's except clause answers 500.
CompletionFails(r) ==
    /\ Active(r)
    /\ Commit(r, [Resume(r) EXCEPT !.reply = Reply(INTERNAL_FAILURE, "completion failed", <<>>, <<>>)])
    /\ UNCHANGED nextId

(***************************************************************************)
(* tool_reply and tool_reply_batch                                         *)
(***************************************************************************)
\* clean_for_json_serialization followed by json.dumps
Clean(result) == IF result = NaN THEN "null" ELSE result

RECURSIVE LastToolCalls(_, _)
LastToolCalls(msgs, i) ==
    IF i = 0 THEN <<>>
    ELSE IF msgs[i].role = "assistant" /\ msgs[i].tool_calls # <<>>
         THEN msgs[i].tool_calls
         ELSE LastToolCalls(msgs, i - 1)

ExistingToolIds(msgs) ==
    {msgs[i].tool_call_id : i \in {j \in 1..Len(msgs) : msgs[j].role = "tool"}}

\* A slip of the replay: every pending call counts as a call of the turn.
ValidToolCallIdsAnyTurn(msgs, calls) == PendingIds(calls)

ValidToolCallIds(msgs, calls) ==
    LET last == LastToolCalls(msgs, Len(msgs))
    IN {last[i].id : i \in 1..Len(last)} \cap PendingIds(calls)

\* A slip of the replay: the duplicate guard on existing_tool_ids is left out.
AppendsUnguarded(call, existing_tool_ids, valid_tool_call_ids) ==
    call.call_id \in valid_tool_call_ids

\* Whether the resumption appends a tool message for a pending call.
Appends(call, existing_tool_ids, valid_tool_call_ids) ==
    /\ call.call_id \notin existing_tool_ids
    /\ call.call_id \in valid_tool_call_ids

\* A slip of the replay: the pending calls are walked from the last one.
RECURSIVE AppendResolvedBackwards(_, _, _, _, _)
AppendResolvedBackwards(msgs, calls, i, existing_tool_ids, valid_tool_call_ids) ==
    IF i > Len(calls) THEN msgs
    ELSE LET call == calls[Len(calls) + 1 - i]
         IN AppendResolvedBackwards(
                IF Appends(call, existing_tool_ids, valid_tool_call_ids)
                THEN Append(msgs, ToolMessage(call.call_id, call.tool,
                                              Clean(call.result)))
                ELSE msgs,
                calls, i + 1, existing_tool_ids, valid_tool_call_ids)

\* for call_id, call_data in conversation["pending_calls"].items(): ...
RECURSIVE AppendResolved(_, _, _, _, _)
AppendResolved(msgs, calls, i, existing_tool_ids, valid_tool_call_ids) ==
    IF i > Len(calls) THEN msgs
    ELSE AppendResolved(
            IF Appends(calls[i], existing_tool_ids, valid_tool_call_ids)
            THEN Append(msgs, ToolMessage(calls[i].call_id, calls[i].tool,
                                          Clean(calls[i].result)))
            ELSE msgs,
            calls, i + 1, existing_tool_ids, valid_tool_call_ids)

\* All calls resolved: replay the results and resume the loop.
Replay(st) ==
    LET conv == st.heap[st.conv]
        msgs == AppendResolved(conv.messages, conv.pending_calls, 1,
                               ExistingToolIds(conv.messages),
                               ValidToolCallIds(conv.messages, conv.pending_calls))
        guarded == \E i \in 1..Len(conv.pending_calls) :
                       conv.pending_calls[i].call_id
                           \in ExistingToolIds(conv.messages)
                               \cap ValidToolCallIds(conv.messages,
                                                     conv.pending_calls)
    IN LoopHead([st EXCEPT !.heap[st.conv].messages = msgs,
                           !.iteration = conv.iteration,
                           !.guarded = guarded])

\* A slip of the check: the results delivered so far are replayed before the
\* handler finds that others are missing.
ResolvedEagerly(st) ==
    LET conv == st.heap[st.conv]
        delivered == SelectSeq(conv.pending_calls, LAMBDA c : c.result # None)
    IN IF Unresolved(conv.pending_calls) # {}
       THEN [st EXCEPT !.heap[st.conv].messages =
                           AppendResolved(conv.messages, delivered, 1,
                                          ExistingToolIds(conv.messages),
                                          ValidToolCallIds(conv.messages,
                                                           conv.pending_calls)),
                       !.reply = Reply("waiting", "Waiting", <<>>, <<>>)]
       ELSE Replay(st)

\* After the results are stored: wait, or replay the results and resume.
Resolved(st) ==
    IF Unresolved(st.heap[st.conv].pending_calls) # {}
    THEN [st EXCEPT !.reply = Reply("waiting", "Waiting", <<>>, <<>>)]
    ELSE Replay(st)

SESSION_NOT_FOUND == "404: Session not found in pending conversations"
CALL_NOT_FOUND == "404: Call not found in pending calls"

\* raise HTTPException(status_code=404, ...) inside the handler's try block:
\* the except Exception clause catches it and raises
\* HTTPException(status_code=500, detail=str(e)), as for any other failure.
NotFound(st, detail) == [st EXCEPT !.reply = Reply(INTERNAL_FAILURE, detail, <<>>, <<>>)]

\* conversation["pending_calls"][call_id]["result"] = req.result
StoreOne(calls, call_id, result) == SetResult(calls, call_id, result)

\* tool_reply up to the store of the result (lines 1863-1881)
Stored(st0, call_id, result) ==
    IF st0.table[st0.session] = NoConv
    THEN NotFound(st0, SESSION_NOT_FOUND)
    ELSE LET st1 == [st0 EXCEPT !.conv = st0.table[st0.session]]
         IN IF call_id \notin PendingIds(st1.heap[st1.conv].pending_calls)
            THEN NotFound([st1 EXCEPT !.conv = NoConv], CALL_NOT_FOUND)
            ELSE [st1 EXCEPT !.heap[st1.conv].pending_calls =
                                StoreOne(@, call_id, result),
                             !.pc = "stored"]

ToolReply(st0, call_id, result) ==
    LET st == Stored(st0, call_id, result)
    IN IF st.reply # NoReply THEN st ELSE Resolved(st)

ResolveOne(r, s, call_id, result) ==
    LET st == ToolReply([Work(r, "one", s) EXCEPT !.call_id = call_id],
                        call_id, result)
    IN /\ Commit(r, st)
       /\ UNCHANGED nextId

\* tool_reply as two steps of its thread: the store of the result, then the
\* check of the pending calls and what follows it up to the completion call.
StoreResult(r, s, call_id, result) ==
    /\ Commit(r, Stored([Work(r, "one", s) EXCEPT !.call_id = call_id],
                        call_id, result))
    /\ UNCHANGED nextId

CheckResolved(r) ==
    /\ reqs[r].pc = "stored"
    /\ Commit(r, Resolved(Resume(r)))
    /\ UNCHANGED nextId

\* A slip of the store loop: it stops at the first callId that is not pending.
RECURSIVE StoreAllUntilUnknown(_, _, _)
StoreAllUntilUnknown(calls, results, i) ==
    IF i > Len(results) \/ results[i].callId \notin PendingIds(calls) THEN calls
    ELSE StoreAllUntilUnknown(SetResult(calls, results[i].callId, results[i].result),
                              results, i + 1)

\* for result in results: store it when its callId is pending
RECURSIVE StoreAll(_, _, _)
StoreAll(calls, results, i) ==
    IF i > Len(results) THEN calls
    ELSE StoreAll(IF results[i].callId \in PendingIds(calls)
                  THEN SetResult(calls, results[i].callId, results[i].result)
                  ELSE calls,
                  results, i + 1)

ToolReplyBatch(st0, results) ==
    IF st0.table[st0.session] = NoConv
    THEN NotFound(st0, SESSION_NOT_FOUND)
    ELSE LET st1 == [st0 EXCEPT !.conv = st0.table[st0.session]]
             calls == st1.heap[st1.conv].pending_calls
         IN Resolved([st1 EXCEPT !.heap[st1.conv].pending_calls =
                                    StoreAll(@, results, 1),
                                 !.skipped =
                                    \E i \in 1..Len(results) :
                                        results[i].callId \notin PendingIds(calls)])

ResolveBatch(r, s, results) ==
    LET st == ToolReplyBatch(Work(r, "batch", s), results)
    IN /\ Commit(r, st)
       /\ UNCHANGED nextId

\* The batches a bridge client sends for session s: items for the pending
\* calls of the session and for one call id that is not pending, a null
\* result included.
UnknownId == 0
KnownIds(s) ==
    IF pending_conversations[s] = NoConv THEN {}
    ELSE PendingIds(heap[pending_conversations[s]].pending_calls)
BatchItems(s) == [callId : KnownIds(s) \cup {UnknownId}, result : Results \cup {None}]
Batches(s) ==
    {b \in UNION {[1..n -> BatchItems(s)] : n \in 0..MaxBatch} :
        /\ \A i \in 1..Len(b) - 1 : b[i].callId < b[i + 1].callId
        /\ \A i \in 1..Len(b) : b[i].callId = UnknownId => b[i].result = NaN}

(***************************************************************************)
(* The statistical engine: calculate_rolling_statistics and                *)
(* detect_outliers_with_dynamic_thresholds over the rows of one stream,    *)
(* with one requested field.  A row is [t |-> time_boot_ms, v |-> value of *)
(* the field or Null].  window_step is a float in the code: window bounds  *)
(* are kept as exact fractions over num_windows.                           *)
(***************************************************************************)
\* Python's None where the other values are numbers (all of them >= 0)
Null == -1

NoStat == [pc |-> "idle", rows |-> <<>>, window_size_ms |-> 1,
           threshold_sigma10 |-> 0, result |-> <<>>]

SetMin(S) == CHOOSE x \in S : \A y \in S : x <= y
SetMax(S) == CHOOSE x \in S : \A y \in S : x >= y

times(rows) == {rows[k].t : k \in 1..Len(rows)}
first_time(rows) == SetMin(times(rows))
last_time(rows) == SetMax(times(rows))
duration_ms(rows) == last_time(rows) - first_time(rows)

\* A slip of the window count: the quotient is rounded up.
num_windows_ceil(duration, window_size_ms) ==
    Max(1, (duration + window_size_ms - 1) \div window_size_ms)

\* num_windows = max(1, duration_ms // window_size_ms)
num_windows(duration, window_size_ms) == Max(1, duration \div window_size_ms)

\* window_start = first_time + i * window_step, times num_windows
window_start(rows, window_size_ms, i) ==
    first_time(rows) * num_windows(duration_ms(rows), window_size_ms)
        + i * duration_ms(rows)

\* window_end = window_start + window_size_ms, times num_windows
window_end(rows, window_size_ms, i) ==
    window_start(rows, window_size_ms, i)
        + window_size_ms * num_windows(duration_ms(rows), window_size_ms)

\* the rows with window_start <= time_boot_ms <= window_end
window_records(rows, window_size_ms, i) ==
    LET n == num_windows(duration_ms(rows), window_size_ms)
    IN SelectSeq(rows, LAMBDA row :
                    /\ window_start(rows, window_size_ms, i) <= row.t * n
                    /\ row.t * n <= window_end(rows, window_size_ms, i))

\* the values of the field that are not None (and numeric)
values(recs) ==
    LET kept == SelectSeq(recs, LAMBDA row : row.v # Null)
    IN [k \in 1..Len(kept) |-> kept[k].v]

RECURSIVE Sum(_)
Sum(xs) == IF xs = <<>> THEN 0 ELSE Head(xs) + Sum(Tail(xs))

SumSq(xs) == Sum([k \in 1..Len(xs) |-> xs[k] * xs[k]])

\* round(a / n, 3) in thousandths, for a >= 0
Round3(a, n) == (2000 * a + n) \div (2 * n)

\* round(scale * sqrt(num / den)): the largest d with (d - 1/2)^2 <= scale^2 * num / den
RECURSIVE SqrtRound(_, _, _, _, _)
SqrtRound(num, den, scale, lo, hi) ==
    IF lo = hi THEN lo
    ELSE LET d == (lo + hi + 1) \div 2
         IN IF (2 * d - 1) * (2 * d - 1) * den <= 4 * scale * scale * num
            THEN SqrtRound(num, den, scale, d, hi)
            ELSE SqrtRound(num, den, scale, lo, d - 1)

Abs(x) == IF x < 0 THEN -x ELSE x

\* A slip of the sample bound: one sample is enough for the statistics.
field_statistics_from_one(vals) ==
    LET n == Len(vals)
        s == Sum(vals)
        q == SumSq(vals)
    IN IF n < 1
       THEN [sample_count |-> n, mean |-> Null,
             variance_num |-> Null, variance_den |-> Null,
             min |-> Null, max |-> Null]
       ELSE [sample_count |-> n, mean |-> Round3(s, n),
             variance_num |-> n * q - s * s, variance_den |-> n * n,
             min |-> SetMin({vals[k] : k \in 1..n}),
             max |-> SetMax({vals[k] : k \in 1..n})]

\* The statistics of the field in one window.  With n samples of sum s and
\* sum of squares q, mean = s / n and variance = (n * q - s * s) / (n * n);
\* std = variance ** 0.5 is kept as the variance, an exact fraction
\* variance_num / variance_den.
field_statistics(vals) ==
    LET n == Len(vals)
        s == Sum(vals)
        q == SumSq(vals)
    IN IF n < 2
       THEN [sample_count |-> n, mean |-> Null,
             variance_num |-> Null, variance_den |-> Null,
             min |-> Null, max |-> Null]
       ELSE [sample_count |-> n, mean |-> Round3(s, n),
             variance_num |-> n * q - s * s, variance_den |-> n * n,
             min |-> SetMin({vals[k] : k \in 1..n}),
             max |-> SetMax({vals[k] : k \in 1..n})]

calculate_rolling_statistics(rows, window_size_ms) ==
    IF rows = <<>> THEN [windows |-> <<>>, duration_ms |-> 0, num_windows |-> Null]
    ELSE LET n == num_windows(duration_ms(rows), window_size_ms)
         IN [windows |->
                [k \in 1..n |->
                    [window_index |-> k - 1,
                     start_ms |-> window_start(rows, window_size_ms, k - 1),
                     end_ms |-> window_end(rows, window_size_ms, k - 1),
                     fields |->
                         field_statistics(
                             values(window_records(rows, window_size_ms, k - 1)))]],
             duration_ms |-> duration_ms(rows),
             num_windows |-> n]

\* A slip of the threshold test: a value on a threshold counts as outside.
OutsideInclusive(v, n, s, q, threshold_sigma10) ==
    100 * (n * v - s) * (n * v - s)
        >= threshold_sigma10 * threshold_sigma10 * (n * q - s * s)

\* value > threshold_upper or value < threshold_lower, with
\* threshold = mean +/- threshold_sigma * std: as std >= 0 this is
\* |value - mean| > threshold_sigma * std, compared here by the squares.
Outside(v, n, s, q, threshold_sigma10) ==
    100 * (n * v - s) * (n * v - s)
        > threshold_sigma10 * threshold_sigma10 * (n * q - s * s)

\* deviation_sigma, in hundredths: round(abs(value - mean) / std, 2), 0 if std is 0
deviation_sigma(v, n, s, q) ==
    IF n * q - s * s > 0
    THEN SqrtRound((n * v - s) * (n * v - s), n * q - s * s, 100, 0, 100 * MaxRows)
    ELSE 0

outlier_points(recs, threshold_sigma10) ==
    LET vals == values(recs)
        n == Len(vals)
        s == Sum(vals)
        q == SumSq(vals)
        out == SelectSeq(recs, LAMBDA row :
                   row.v # Null /\ Outside(row.v, n, s, q, threshold_sigma10))
    IN [k \in 1..Len(out) |->
           [timestamp |-> out[k].t, value |-> out[k].v,
            deviation_sigma |-> deviation_sigma(out[k].v, n, s, q),
            deviation_magnitude |-> Round3(Abs(n * out[k].v - s), n)]]

\* A slip of the sample bound: the bound of the baseline statistics is used.
RECURSIVE outliersFromTwo(_, _, _, _)
outliersFromTwo(rows, threshold_sigma10, window_size_ms, i) ==
    IF i >= num_windows(duration_ms(rows), window_size_ms) THEN <<>>
    ELSE LET recs == window_records(rows, window_size_ms, i)
             vals == values(recs)
             points == outlier_points(recs, threshold_sigma10)
         IN (IF Len(vals) < 2 THEN <<>>
             ELSE <<[window_index |-> i,
                     start_ms |-> window_start(rows, window_size_ms, i),
                     end_ms |-> window_end(rows, window_size_ms, i),
                     outlier_count |-> Len(points),
                     outlier_points |-> points,
                     baseline_mean |-> Round3(Sum(vals), Len(vals))]>>)
            \o outliersFromTwo(rows, threshold_sigma10, window_size_ms, i + 1)

\* The reports of the windows from the i-th on: a window with fewer than 3
\* values of the field is passed over.
RECURSIVE outliers(_, _, _, _)
outliers(rows, threshold_sigma10, window_size_ms, i) ==
    IF i >= num_windows(duration_ms(rows), window_size_ms) THEN <<>>
    ELSE LET recs == window_records(rows, window_size_ms, i)
             vals == values(recs)
             points == outlier_points(recs, threshold_sigma10)
         IN (IF Len(vals) < 3 THEN <<>>
             ELSE <<[window_index |-> i,
                     start_ms |-> window_start(rows, window_size_ms, i),
                     end_ms |-> window_end(rows, window_size_ms, i),
                     outlier_count |-> Len(points),
                     outlier_points |-> points,
                     baseline_mean |-> Round3(Sum(vals), Len(vals))]>>)
            \o outliers(rows, threshold_sigma10, window_size_ms, i + 1)

detect_outliers_with_dynamic_thresholds(rows, threshold_sigma10, window_size_ms) ==
    IF rows = <<>> THEN [outliers |-> <<>>, total_outliers |-> 0,
                         duration_ms |-> 0, num_windows |-> Null]
    ELSE LET reports == outliers(rows, threshold_sigma10, window_size_ms, 0)
         IN [outliers |-> reports,
             total_outliers |->
                 Sum([k \in 1..Len(reports) |-> reports[k].outlier_count]),
             duration_ms |-> duration_ms(rows),
             num_windows |-> num_windows(duration_ms(rows), window_size_ms)]

\* The calls made: rows in ascending time order with distinct timestamps,
\* values 0, 10 and Null, two nominal window sizes, two thresholds (in tenths).
FieldValues == {0, 10, Null}
WindowSizes == {2, MaxTime}
ThresholdSigmas10 == {10, 25}

RECURSIVE SortedRows(_, _)
SortedRows(T, f) ==
    IF T = {} THEN <<>>
    ELSE <<[t |-> SetMin(T), v |-> f[SetMin(T)]]>> \o SortedRows(T \ {SetMin(T)}, f)

\* get_telemetry_data_internal for stream GLOBAL_POSITION_INT and field alt:
\* the items of session.downsample1Hz["gpos"] become the rows, t the
\* time_boot_ms and relAltM the field; no item, no data.  An item that is not
\* a mapping makes the conversion raise.
get_telemetry_data_internal(stream_data, malformed) ==
    IF stream_data = <<>> THEN [ok |-> FALSE, raised |-> FALSE, rows |-> <<>>]
    ELSE IF malformed THEN [ok |-> FALSE, raised |-> TRUE, rows |-> <<>>]
    ELSE [ok |-> TRUE, raised |-> FALSE,
          rows |-> [k \in 1..Len(stream_data) |->
                       [t |-> stream_data[k].t, v |-> stream_data[k].relAltM]]]

\* The structured results: findings is <<>> for the empty findings {}.
NotOk(error) == [ok |-> FALSE, error |-> error, findings |-> <<>>]
Ok(findings) == [ok |-> TRUE, error |-> "", findings |-> <<findings>>]

\* A slip of the sufficiency check: the bound of the outlier windows is used.
TooFewForWindow(rows) == Len(rows) < 3

\* if len(rows) < 10
TooFew(rows) == Len(rows) < MinRecords

analyze_flight_baseline_impl(known, stream_data, malformed, window_size_ms) ==
    IF ~known THEN NotOk("Session not found")
    ELSE LET slice_result == get_telemetry_data_internal(stream_data, malformed)
         IN IF slice_result.raised THEN NotOk("Analysis failed")
            ELSE IF ~slice_result.ok THEN NotOk("Failed to get data for stream")
            ELSE IF TooFew(slice_result.rows) THEN NotOk("Insufficient data for analysis")
            ELSE IF duration_ms(slice_result.rows) = 0
                 THEN NotOk("Analysis failed")  \* data density divides by the duration
            ELSE Ok(calculate_rolling_statistics(slice_result.rows, window_size_ms))

detect_statistical_outliers_impl(known, stream_data, malformed, threshold_sigma10, window_size_ms) ==
    IF ~known THEN NotOk("Session not found")
    ELSE LET slice_result == get_telemetry_data_internal(stream_data, malformed)
         IN IF slice_result.raised THEN NotOk("Outlier detection failed")
            ELSE IF ~slice_result.ok THEN NotOk("Failed to get data for stream")
            ELSE IF TooFew(slice_result.rows) THEN NotOk("Insufficient data for analysis")
            ELSE Ok(detect_outliers_with_dynamic_thresholds(
                        slice_result.rows, threshold_sigma10, window_size_ms))

AnalyzeFlightBaseline ==
    /\ stat.pc = "input"
    /\ stat' = [stat EXCEPT
                  !.pc = "baseline",
                  !.result = analyze_flight_baseline_impl(
                                 stat.known, stat.stream_data, stat.malformed,
                                 stat.window_size_ms)]
    /\ UNCHANGED <<pending_conversations, heap, reqs, nextId, arrived, invocations>>

DetectStatisticalOutliers ==
    /\ stat.pc = "input"
    /\ stat' = [stat EXCEPT
                  !.pc = "outliers",
                  !.result = detect_statistical_outliers_impl(
                                 stat.known, stat.stream_data, stat.malformed,
                                 stat.threshold_sigma10, stat.window_size_ms)]
    /\ UNCHANGED <<pending_conversations, heap, reqs, nextId, arrived, invocations>>

\* The streams fetched: one item per timestamp 0, 1, ..., all of value 0 but
\* for at most one of value 10.
StreamData(n, odd) ==
    [k \in 1..n |-> [t |-> k - 1, relAltM |-> IF k = odd THEN 10 ELSE 0]]

CalculateRollingStatistics ==
    /\ stat.pc = "input"
    /\ stat' = [stat EXCEPT
                  !.pc = "baseline",
                  !.result = calculate_rolling_statistics(stat.rows, stat.window_size_ms)]
    /\ UNCHANGED <<pending_conversations, heap, reqs, nextId, arrived, invocations>>

DetectOutliers ==
    /\ stat.pc = "input"
    /\ stat' = [stat EXCEPT
                  !.pc = "outliers",
                  !.result = detect_outliers_with_dynamic_thresholds(
                                 stat.rows, stat.threshold_sigma10, stat.window_size_ms)]
    /\ UNCHANGED <<pending_conversations, heap, reqs, nextId, arrived, invocations>>

(***************************************************************************)
(* trace_causal_chains_impl over the events of a session.  An event is     *)
(* [t |-> timestamp, text |-> its text, "" when it has none].              *)
(***************************************************************************)
\* A slip of the sort key: the signed delta.
SortKeySigned(x) == x.time_delta_ms

\* key=lambda x: abs(x["time_delta_ms"])
SortKey(x) == Abs(x.time_delta_ms)

\* list.sort is stable: x goes behind every element whose key is not larger.
RECURSIVE InsertByKey(_, _)
InsertByKey(sorted, x) ==
    IF sorted = <<>> THEN <<x>>
    ELSE IF SortKey(Head(sorted)) <= SortKey(x)
         THEN <<Head(sorted)>> \o InsertByKey(Tail(sorted), x)
         ELSE <<x>> \o sorted

RECURSIVE SortByKey(_)
SortByKey(xs) ==
    IF xs = <<>> THEN <<>>
    ELSE InsertByKey(SortByKey(SubSeq(xs, 1, Len(xs) - 1)), xs[Len(xs)])

\* round(time_delta / 1000, 1) in tenths of a second (no delta of the model
\* is half way between two tenths)
time_delta_seconds(time_delta) ==
    IF time_delta < 0 THEN -((50 - time_delta) \div 100) ELSE (time_delta + 50) \div 100

\* if event.get("text"): ... if window_start <= event_time <= window_end
nearby(event, target_timestamp_ms, time_window_ms) ==
    /\ event.text # ""
    /\ target_timestamp_ms - time_window_ms <= event.t
    /\ event.t <= target_timestamp_ms + time_window_ms

nearby_event(event, target_timestamp_ms) ==
    [timestamp_ms |-> event.t, text |-> event.text,
     time_delta_ms |-> event.t - target_timestamp_ms,
     time_delta_seconds |-> time_delta_seconds(event.t - target_timestamp_ms),
     direction |-> IF event.t - target_timestamp_ms < 0 THEN "before" ELSE "after",
     proximity_rank |-> 0]

trace_causal_chains_impl(known, events, target_timestamp_ms, time_window_ms) ==
    IF ~known THEN NotOk("Session not found")
    ELSE LET kept == SelectSeq(events, LAMBDA e :
                         nearby(e, target_timestamp_ms, time_window_ms))
             nearby_events ==
                 SortByKey([k \in 1..Len(kept) |->
                               nearby_event(kept[k], target_timestamp_ms)])
         IN Ok([target_timestamp_ms |-> target_timestamp_ms,
                time_window_ms |-> time_window_ms,
                events_found |-> Len(nearby_events),
                nearby_events |->
                    [k \in 1..Len(nearby_events) |->
                        [nearby_events[k] EXCEPT !.proximity_rank = k]]])

TraceCausalChains ==
    /\ stat.pc = "input"
    /\ stat' = [stat EXCEPT
                  !.pc = "traced",
                  !.result = trace_causal_chains_impl(
                                 stat.known, stat.events,
                                 stat.target_timestamp_ms, stat.time_window_ms)]
    /\ UNCHANGED <<pending_conversations, heap, reqs, nextId, arrived, invocations>>

\* The sessions traced: events in chronological order, with or without text.
EventTexts == {"", "a", "b"}
EventLists ==
    {es \in UNION {[1..n -> [t : 0..MaxEventTime, text : EventTexts]] : n \in 0..MaxEvents} :
        \A k \in 1..Len(es) - 1 : es[k].t <= es[k + 1].t}
Targets == {2}
TimeWindows == {1, 2}

(***************************************************************************)
(* metrics_compute and the eight named metrics.  A session is the record   *)
(* of what the metrics read: alt, gpos, gps and battery are the lists of   *)
(* downsample1Hz (items [t, v], v the field read: altM, relAltM, fix,      *)
(* temp; Null when the item has none), meta is [tStartMs, tEndMs], index   *)
(* the set of its stream names, events the event list, gaps the gaps of    *)
(* its stream (empty when the session has none).  Bad is a value of a type *)
(* the arithmetic and the comparisons of the code reject (a JSON object),  *)
(* BadText a text that is not a string.  Altitudes and temperatures are in *)
(* tenths of a unit, which round(x, 1) leaves alone.                       *)
(***************************************************************************)
Bad == -2
BadText == "<object>"

MetricResult(name, ok, value, t_ms) ==
    [raised |-> FALSE, name |-> name, ok |-> ok, value |-> value, t_ms |-> t_ms]

\* An exception leaving the function: there is no result.
Raised == [raised |-> TRUE, name |-> "", ok |-> FALSE, value |-> Null, t_ms |-> Null]

\* A slip of the failure result: a zero instead of no value.
NotAvailableZero(name) == MetricResult(name, FALSE, 0, Null)

\* MetricResult(name=..., ok=False, value=None, ..., t_ms=None, ...)
NotAvailable(name) == MetricResult(name, FALSE, Null, Null)

\* A slip of the except clause: the exception is not caught.
TryUncaught(body, name) == body

\* try: body / except Exception as e: return MetricResult(ok=False, value=None)
Try(body, name) == IF body.raised THEN NotAvailable(name) ELSE body

present(data) == {k \in 1..Len(data) : data[k].v # Null}

\* max(... if item.get(f) is not None), then the item carrying it with the
\* largest t, then round(max, 1): a Bad value raises in max or in round.
extremum(name, data) ==
    IF \E k \in present(data) : data[k].v = Bad THEN Raised
    ELSE LET max_v == SetMax({data[k].v : k \in present(data)})
             max_t == SetMax({data[k].t : k \in {j \in present(data) : data[j].v = max_v}})
         IN MetricResult(name, TRUE, max_v, max_t)

\* A slip of the fallback order: the position stream is tried first.
metrics_compute_max_altitude_gpos_first(session) ==
    Try(IF present(session.gpos) # {} THEN extremum("max_altitude", session.gpos)
        ELSE IF present(session.alt) # {} THEN extremum("max_altitude", session.alt)
        ELSE NotAvailable("max_altitude"),
        "max_altitude")

metrics_compute_max_altitude(session) ==
    Try(IF present(session.alt) # {} THEN extremum("max_altitude", session.alt)
        ELSE IF present(session.gpos) # {} THEN extremum("max_altitude", session.gpos)
        ELSE NotAvailable("max_altitude"),
        "max_altitude")

\* round(duration_ms / 1000.0, 1), in tenths of a second
duration_s(ms) == (ms + 50) \div 100

metrics_compute_flight_time(session) ==
    LET t_start == session.meta.tStartMs
        t_end == session.meta.tEndMs
    IN Try(IF t_start = Null \/ t_end = Null THEN NotAvailable("flight_time")
           ELSE IF t_start = Bad \/ t_end = Bad THEN Raised
           ELSE IF t_end > t_start
                THEN MetricResult("flight_time", TRUE, duration_s(t_end - t_start), Null)
                ELSE NotAvailable("flight_time"),
           "flight_time")

\* for item in <the sorted items>: the first fix below 3; a Bad fix met
\* before it raises in the comparison.
RECURSIVE first_fix_below_3(_)
first_fix_below_3(gps_data) ==
    IF gps_data = <<>> THEN MetricResult("first_gps_loss", TRUE, Null, Null)
    ELSE LET fix == Head(gps_data).v
         IN IF fix = Null THEN first_fix_below_3(Tail(gps_data))
            ELSE IF fix = Bad THEN Raised
            ELSE IF fix < 3
                 THEN MetricResult("first_gps_loss", TRUE, fix, Head(gps_data).t)
                 ELSE first_fix_below_3(Tail(gps_data))

\* sorted(gps_data, key=lambda x: x.get("t", 0)): an item whose t is None
\* has the key None, which no comparison accepts.
gps_sort_raises(gps_data) ==
    Len(gps_data) >= 2 /\ \E k \in 1..Len(gps_data) : gps_data[k].t = Null

\* sorted is stable: x goes behind every item whose t is not larger.
RECURSIVE insert_by_t(_, _)
insert_by_t(sorted, x) ==
    IF sorted = <<>> THEN <<x>>
    ELSE IF Head(sorted).t <= x.t
         THEN <<Head(sorted)>> \o insert_by_t(Tail(sorted), x)
         ELSE <<x>> \o sorted

\* A slip of the scan: the items are walked in the order of the list.
unsorted(gps_data) == gps_data

RECURSIVE sorted_by_t(_)
sorted_by_t(gps_data) ==
    IF gps_data = <<>> THEN <<>>
    ELSE insert_by_t(sorted_by_t(SubSeq(gps_data, 1, Len(gps_data) - 1)),
                     gps_data[Len(gps_data)])

metrics_compute_first_gps_loss(session) ==
    Try(IF session.gps = <<>> THEN NotAvailable("first_gps_loss")
        ELSE IF gps_sort_raises(session.gps) THEN Raised
        ELSE first_fix_below_3(sorted_by_t(session.gps)),
        "first_gps_loss")

\* The first item with the largest temp (float(temp) raises on a Bad one);
\* the second pass over the stream named "battery" finds the same maximum.
metrics_compute_max_battery_temp(session) ==
    LET data == session.battery
    IN Try(IF \E k \in present(data) : data[k].v = Bad THEN Raised
           ELSE IF present(data) = {} THEN NotAvailable("max_battery_temp")
           ELSE LET max_temp == SetMax({data[k].v : k \in present(data)})
                    first == SetMin({k \in present(data) : data[k].v = max_temp})
                IN MetricResult("max_battery_temp", TRUE, max_temp, data[first].t),
           "max_battery_temp")

\* "RC" in text and ("FAILSAFE" in text or "LOST" in text or ...)
rc_loss_text(text) == text = "RC LOST"

\* any(keyword in text for keyword in critical_keywords)
has_critical_keyword(text) == text = "EKF ERROR"

\* xs.sort(key=lambda x: x.get("t_ms", 0)): an event without t has the key
\* None, which no comparison accepts.
sort_raises(xs) == Len(xs) >= 2 /\ \E k \in 1..Len(xs) : xs[k].t = Null

\* The first element of the stable sort by t.
first_by_t(xs) ==
    xs[SetMin({k \in 1..Len(xs) : \A j \in 1..Len(xs) : xs[k].t <= xs[j].t})]

with_text(events) == SelectSeq(events, LAMBDA e : e.text # "")

metrics_compute_first_rc_loss(session) ==
    LET texts == with_text(session.events)
        rc_loss_events == SelectSeq(texts, LAMBDA e : rc_loss_text(e.text))
    IN Try(IF \E k \in 1..Len(texts) : texts[k].text = BadText THEN Raised
           ELSE IF rc_loss_events # <<>>
                THEN IF sort_raises(rc_loss_events) THEN Raised
                     ELSE MetricResult("first_rc_loss", TRUE, 1,
                                       first_by_t(rc_loss_events).t)
           ELSE IF "RC_CHANNELS" \in session.index THEN NotAvailable("first_rc_loss")
           ELSE IF "SYS_STATUS" \in session.index THEN NotAvailable("first_rc_loss")
           ELSE MetricResult("first_rc_loss", TRUE, Null, Null),
           "first_rc_loss")

\* severity is not None and severity <= 3, or a keyword
is_critical(e) ==
    (e.severity # Null /\ e.severity <= 3) \/ has_critical_keyword(e.text)

metrics_compute_critical_errors(session) ==
    LET texts == with_text(session.events)
        critical_events == SelectSeq(texts, is_critical)
    IN Try(IF \E k \in 1..Len(texts) :
                  texts[k].text = BadText \/ texts[k].severity = Bad
           THEN Raised
           ELSE IF sort_raises(critical_events) THEN Raised
           ELSE MetricResult("critical_errors", TRUE, Len(critical_events),
                             IF critical_events = <<>> THEN Null
                             ELSE first_by_t(critical_events).t),
           "critical_errors")

metrics_compute_available_streams(session) ==
    Try(MetricResult("available_streams", TRUE, Cardinality(session.index), Null),
        "available_streams")

\* g.get("durationMs", 0) >= 5000 raises on a Bad duration; the notes read
\* g['startMs'] of the big gaps, which raises when a gap has none.
metrics_compute_missing_segments(session) ==
    LET gaps == SelectSeq(session.gaps,
                          LAMBDA g : g.durationMs # Bad /\ g.durationMs >= 5000)
    IN Try(IF session.gaps = <<>> THEN MetricResult("missing_segments", TRUE, 0, Null)
           ELSE IF \E k \in 1..Len(session.gaps) : session.gaps[k].durationMs = Bad
                THEN Raised
           ELSE IF \E k \in 1..Len(gaps) : gaps[k].startMs = Null THEN Raised
           ELSE MetricResult("missing_segments", TRUE, Len(gaps), Null),
           "missing_segments")

metrics_compute(known, session, metric) ==
    IF ~known THEN NotAvailable(metric)
    ELSE IF metric = "max_altitude" THEN metrics_compute_max_altitude(session)
    ELSE IF metric = "flight_time" THEN metrics_compute_flight_time(session)
    ELSE IF metric = "first_gps_loss" THEN metrics_compute_first_gps_loss(session)
    ELSE IF metric = "first_rc_loss" THEN metrics_compute_first_rc_loss(session)
    ELSE IF metric = "max_battery_temp" THEN metrics_compute_max_battery_temp(session)
    ELSE IF metric = "critical_errors" THEN metrics_compute_critical_errors(session)
    ELSE IF metric = "available_streams" THEN metrics_compute_available_streams(session)
    ELSE IF metric = "missing_segments" THEN metrics_compute_missing_segments(session)
    ELSE NotAvailable(metric)

MetricsCompute ==
    /\ stat.pc = "input"
    /\ stat' = [stat EXCEPT
                  !.pc = "computed",
                  !.result = metrics_compute(stat.known, stat.session, stat.metric)]
    /\ UNCHANGED <<pending_conversations, heap, reqs, nextId, arrived, invocations>>

\* The metric names asked for: the eight named ones and another one.
NamedMetrics ==
    {"max_altitude", "flight_time", "first_gps_loss", "first_rc_loss",
     "max_battery_temp", "critical_errors", "available_streams", "missing_segments"}
MetricNames == NamedMetrics \cup {"top_speed"}

\* The sessions measured: an empty one, and the ones that differ from it
\* in one part.
SeqsUpTo(S) == UNION {[1..n -> S] : n \in 0..MaxItems}
Samples(V) == {[k \in 1..Len(vs) |-> [t |-> k, v |-> vs[k]]] : vs \in SeqsUpTo(V)}
\* The gps items come in any order of their timestamps, with ties; t is
\* Null when the item's t is None.
GpsSamples ==
    UNION {[1..n -> [t : {Null, 1, 2}, v : {Null, 2, 3, Bad}]] : n \in 0..MaxGps}
EmptySession ==
    [alt |-> <<>>, gpos |-> <<>>, gps |-> <<>>, battery |-> <<>>,
     meta |-> [tStartMs |-> Null, tEndMs |-> Null], index |-> {},
     events |-> <<>>, gaps |-> <<>>]
MetricSessions ==
    {[EmptySession EXCEPT !.alt = a, !.gpos = g] :
        a \in Samples({Null, 4, 5, Bad}), g \in Samples({Null, 7, Bad})}
    \cup {[EmptySession EXCEPT !.meta = m] :
        m \in [tStartMs : {Null, Bad, 0, 1230}, tEndMs : {Null, Bad, 0, 1230}]}
    \cup {[EmptySession EXCEPT !.gps = g] : g \in GpsSamples}
    \cup {[EmptySession EXCEPT !.battery = b, !.index = i] :
        b \in Samples({Null, 200, 300, Bad}),
        i \in SUBSET {"RC_CHANNELS", "SYS_STATUS"}}
    \cup {[EmptySession EXCEPT !.events = es, !.index = i] :
        es \in SeqsUpTo([t : {Null, 1, 2}, text : {"", "RC LOST", "EKF ERROR", BadText},
                         severity : {Null, 2, Bad}]),
        i \in {{}, {"RC_CHANNELS"}}}
    \cup {[EmptySession EXCEPT !.gaps = gs] :
        gs \in SeqsUpTo([startMs : {Null, 0}, durationMs : {Null, 1000, 6000, Bad}])}

(***************************************************************************)
(* Specifications                                                          *)
(***************************************************************************)
Init ==
    /\ pending_conversations = [s \in Sessions |-> NoConv]
    /\ heap = [o \in ObjIds |-> FreeObj]
    /\ reqs = [r \in Slots |-> IdleReq]
    /\ nextId = 1
    /\ arrived = 0
    /\ invocations = [s \in Sessions |-> 0]
    /\ stat = NoStat

\* A request arrives in the lowest slot that holds no running request.
Arrives(r) == ~Active(r) /\ \A q \in Slots : q < r => Active(q)

NoneActive == \A q \in Slots : ~Active(q)

Start(r) == \E s \in Sessions, h \in Histories : StartConversation(r, s, h)
One(r) ==
    \E s \in Sessions :
        \E c \in KnownIds(s) \cup {UnknownId}, res \in Results : ResolveOne(r, s, c, res)
Batch(r) == \E s \in Sessions : \E b \in Batches(s) : ResolveBatch(r, s, b)

Uncounted == UNCHANGED <<arrived, invocations, stat>>

\* Requests run one after the other: the sequential behaviours.
Next ==
    \/ \E r \in Slots : Arrives(r) /\ NoneActive /\ Start(r) /\ Uncounted
    \/ \E r \in Slots : Arrives(r) /\ NoneActive /\ One(r) /\ Uncounted
    \/ \E r \in Slots : Arrives(r) /\ NoneActive /\ Batch(r) /\ Uncounted
    \/ \E r \in Slots : CompleteStart(r, CallShapes, MaxIds) /\ Uncounted
    \/ \E r \in Slots : CompleteOne(r, CallShapes, MaxIds) /\ Uncounted
    \/ \E r \in Slots : CompleteBatch(r, CallShapes, MaxIds) /\ Uncounted
    \/ \E r \in Slots : CompletionFails(r) /\ Uncounted

Spec == Init /\ [][Next]_vars

\* The completion service is told the current session id in the system
\* prompt: here it passes that id in every telemetry_slice call it requests.
EchoShapes(r) ==
    LocalShapes
    \cup {[name |-> BridgeTool, sessionId |-> reqs[r].session, raises |-> FALSE]}

NextEcho ==
    \/ \E r \in Slots : Arrives(r) /\ NoneActive /\ Start(r) /\ Uncounted
    \/ \E r \in Slots : Arrives(r) /\ NoneActive /\ One(r) /\ Uncounted
    \/ \E r \in Slots : Arrives(r) /\ NoneActive /\ Batch(r) /\ Uncounted
    \/ \E r \in Slots : CompleteStart(r, EchoShapes(r), MaxIds) /\ Uncounted
    \/ \E r \in Slots : CompleteOne(r, EchoShapes(r), MaxIds) /\ Uncounted
    \/ \E r \in Slots : CompleteBatch(r, EchoShapes(r), MaxIds) /\ Uncounted
    \/ \E r \in Slots : CompletionFails(r) /\ Uncounted

SpecEcho == Init /\ [][NextEcho]_vars

\* One session whose conversation is suspended and resumed again and again:
\* every assistant turn requests bridged calls and no call fails.
ChainSession == SessionSeq[1]
ChainShapes == {[name |-> BridgeTool, sessionId |-> ChainSession, raises |-> FALSE]}

\* A step that leaves request r blocked in the completion service has made
\* one more call for the conversation of its session; startConversation
\* begins a conversation.
Counted(r, begins) ==
    LET before == IF begins THEN 0 ELSE invocations[reqs'[r].session]
    IN /\ invocations' =
              [invocations EXCEPT ![reqs'[r].session] =
                  IF reqs'[r].pc = "llm" THEN Min(before + 1, MaxInvocations)
                  ELSE before]
       /\ UNCHANGED <<arrived, stat>>

NextChain ==
    \/ \E r \in Slots, h \in Histories :
          Arrives(r) /\ NoneActive /\ StartConversation(r, ChainSession, h)
          /\ Counted(r, TRUE)
    \/ \E r \in Slots :
          /\ Arrives(r) /\ NoneActive
          /\ \E c \in KnownIds(ChainSession), res \in Results :
                ResolveOne(r, ChainSession, c, res)
          /\ Counted(r, FALSE)
    \/ \E r \in Slots : CompleteStart(r, ChainShapes, ChainIds) /\ Counted(r, FALSE)
    \/ \E r \in Slots : CompleteOne(r, ChainShapes, ChainIds) /\ Counted(r, FALSE)

SpecChain == Init /\ [][NextChain]_vars

\* One session whose completion service keeps requesting tools, local ones
\* that return, local ones that raise and unknown ones included, up to the
\* iteration cap.
LoopShapes == LocalShapes \cup FailingShapes \cup ChainShapes

NextLoop ==
    \/ \E r \in Slots, h \in Histories :
          Arrives(r) /\ NoneActive /\ StartConversation(r, ChainSession, h)
          /\ Counted(r, TRUE)
    \/ \E r \in Slots :
          /\ Arrives(r) /\ NoneActive
          /\ \E c \in KnownIds(ChainSession) : ResolveOne(r, ChainSession, c, "r1")
          /\ Counted(r, FALSE)
    \/ \E r \in Slots : CompleteStart(r, LoopShapes, LoopIds) /\ Counted(r, FALSE)
    \/ \E r \in Slots : CompleteOne(r, LoopShapes, LoopIds) /\ Counted(r, FALSE)

SpecLoop == Init /\ [][NextLoop]_vars

\* The statistical engine called once on a fetched stream.
InitStat ==
    /\ pending_conversations = [s \in Sessions |-> NoConv]
    /\ heap = [o \in ObjIds |-> FreeObj]
    /\ reqs = [r \in Slots |-> IdleReq]
    /\ nextId = 1
    /\ arrived = 0
    /\ invocations = [s \in Sessions |-> 0]
    /\ \E T \in SUBSET (0..MaxTime) :
          /\ Cardinality(T) <= MaxRows
          /\ \E f \in [T -> FieldValues], w \in WindowSizes, sg \in ThresholdSigmas10 :
                stat = [pc |-> "input", rows |-> SortedRows(T, f),
                        window_size_ms |-> w, threshold_sigma10 |-> sg,
                        result |-> <<>>]

NextStat ==
    \/ CalculateRollingStatistics
    \/ DetectOutliers

SpecStat == InitStat /\ [][NextStat]_vars

\* The two analysis tools called once on a session: known or not, its
\* stream empty, short or long enough, well-formed or not.
InitFetch ==
    /\ pending_conversations = [s \in Sessions |-> NoConv]
    /\ heap = [o \in ObjIds |-> FreeObj]
    /\ reqs = [r \in Slots |-> IdleReq]
    /\ nextId = 1
    /\ arrived = 0
    /\ invocations = [s \in Sessions |-> 0]
    /\ \E n \in 0..FetchRows :
          \E odd \in 0..n, known \in BOOLEAN, malformed \in BOOLEAN,
             w \in WindowSizes, sg \in ThresholdSigmas10 :
                stat = [pc |-> "input", known |-> known,
                        stream_data |-> StreamData(n, odd), malformed |-> malformed,
                        window_size_ms |-> w, threshold_sigma10 |-> sg,
                        result |-> NotOk("")]

NextFetch ==
    \/ AnalyzeFlightBaseline
    \/ DetectStatisticalOutliers

SpecFetch == InitFetch /\ [][NextFetch]_vars

\* trace_causal_chains called once on a session.
InitTrace ==
    /\ pending_conversations = [s \in Sessions |-> NoConv]
    /\ heap = [o \in ObjIds |-> FreeObj]
    /\ reqs = [r \in Slots |-> IdleReq]
    /\ nextId = 1
    /\ arrived = 0
    /\ invocations = [s \in Sessions |-> 0]
    /\ \E es \in EventLists, known \in BOOLEAN, tg \in Targets, w \in TimeWindows :
          stat = [pc |-> "input", known |-> known, events |-> es,
                  target_timestamp_ms |-> tg, time_window_ms |-> w,
                  result |-> NotOk("")]

NextTrace == TraceCausalChains

SpecTrace == InitTrace /\ [][NextTrace]_vars

\* metrics_compute called once with a session id and a metric name.
InitMetric ==
    /\ pending_conversations = [s \in Sessions |-> NoConv]
    /\ heap = [o \in ObjIds |-> FreeObj]
    /\ reqs = [r \in Slots |-> IdleReq]
    /\ nextId = 1
    /\ arrived = 0
    /\ invocations = [s \in Sessions |-> 0]
    /\ \E session \in MetricSessions, known \in BOOLEAN, metric \in MetricNames :
          stat = [pc |-> "input", known |-> known, session |-> session,
                  metric |-> metric, result |-> Raised]

NextMetric == MetricsCompute

SpecMetric == InitMetric /\ [][NextMetric]_vars

\* The completion service asks for tools that are not registered, and for
\* bridged calls of one session; requests run one after the other.
UnknownShapes ==
    {[name |-> UnknownTool, sessionId |-> ChainSession, raises |-> FALSE]}
    \cup ChainShapes

NextUnknown ==
    \/ \E r \in Slots : Arrives(r) /\ NoneActive /\ Start(r) /\ Uncounted
    \/ \E r \in Slots : Arrives(r) /\ NoneActive /\ One(r) /\ Uncounted
    \/ \E r \in Slots : Arrives(r) /\ NoneActive /\ Batch(r) /\ Uncounted
    \/ \E r \in Slots : CompleteStart(r, UnknownShapes, MaxIds) /\ Uncounted
    \/ \E r \in Slots : CompleteOne(r, UnknownShapes, MaxIds) /\ Uncounted
    \/ \E r \in Slots : CompleteBatch(r, UnknownShapes, MaxIds) /\ Uncounted

SpecUnknown == Init /\ [][NextUnknown]_vars

\* Two resolveOne requests of one session, each delivering a call that has
\* no result yet, run in two threads of the pool: a thread may be preempted
\* between its store and its check.  The completion service asks for
\* bridged calls once, at the start.
Free(r) == reqs[r].pc \in {"idle", "returned"}
Undelivered(s) ==
    IF pending_conversations[s] = NoConv THEN {}
    ELSE LET calls == heap[pending_conversations[s]].pending_calls
         IN {calls[i].call_id : i \in Unresolved(calls)}

NextRace ==
    \/ \E r \in Slots, h \in Histories :
          /\ Arrives(r) /\ \A q \in Slots : reqs[q].pc = "idle"
          /\ StartConversation(r, ChainSession, h)
          /\ Counted(r, TRUE)
    \/ \E r \in Slots : CompleteStart(r, ChainShapes, MaxIds) /\ Counted(r, FALSE)
    \/ \E r \in Slots :
          /\ Free(r) /\ \A q \in Slots : q < r => ~Free(q)
          /\ \E c \in Undelivered(ChainSession), res \in Results :
                StoreResult(r, ChainSession, c, res)
          /\ Counted(r, FALSE)
    \/ \E r \in Slots : CheckResolved(r) /\ Counted(r, FALSE)
    \/ \E r \in Slots : CompleteOne(r, {}, MaxIds) /\ Counted(r, FALSE)

SpecRace == Init /\ [][NextRace]_vars

\* The endpoints are synchronous handlers served by a thread pool and take no
\* lock: a request may arrive while others are blocked in the completion
\* service.
Received ==
    /\ arrived < MaxArrivals /\ arrived' = arrived + 1
    /\ UNCHANGED <<invocations, stat>>

NextConc ==
    \/ \E r \in Slots : Arrives(r) /\ Received /\ Start(r)
    \/ \E r \in Slots : Arrives(r) /\ Received /\ One(r)
    \/ \E r \in Slots : Arrives(r) /\ Received /\ Batch(r)
    \/ \E r \in Slots : CompleteStart(r, BridgeShapes, MaxIds) /\ Uncounted
    \/ \E r \in Slots : CompleteOne(r, BridgeShapes, MaxIds) /\ Uncounted
    \/ \E r \in Slots : CompleteBatch(r, BridgeShapes, MaxIds) /\ Uncounted
    \/ \E r \in Slots : CompletionFails(r) /\ Uncounted

SpecConc == Init /\ [][NextConc]_vars

(***************************************************************************)
(* Observations used by the properties                                     *)
(***************************************************************************)
Returned(r) == reqs[r].pc = "returned"
IsResume(r) == reqs[r].kind \in {"one", "batch"}
AgentReply(r) == Returned(r) /\ reqs[r].reply.status \in {"final", "completed"}
Suspends(r) ==
    Returned(r) /\ reqs[r].reply.status \in {"batch_bridge_request", "bridge_request"}

\* The transcript a running handler works on, which is what it sends.
Transcript(r) ==
    IF reqs[r].conv = NoConv THEN reqs[r].messages ELSE heap[reqs[r].conv].messages

\* Every transcript the engine holds.
Transcripts ==
    {heap[o].messages : o \in {x \in ObjIds : heap[x].live}}
    \cup {Transcript(r) : r \in {x \in Slots : Active(x)}}

Entry(s) ==
    IF pending_conversations[s] = NoConv THEN FreeObj ELSE heap[pending_conversations[s]]

ToolIndexes(msgs) == {i \in 1..Len(msgs) : msgs[i].role = "tool"}
AssistantIndexes(msgs) == {i \in 1..Len(msgs) : msgs[i].role = "assistant"}

\* C1: in every transcript held by the engine at most one tool message
\* carries any given call id, whatever startConversation, resolveOne and
\* resolveBatch requests were served, repeated deliveries included.
C1_ToolMessageOncePerCall ==
    \A msgs \in Transcripts :
        \A i, j \in ToolIndexes(msgs) :
            msgs[i].tool_call_id = msgs[j].tool_call_id => i = j

\* A result is delivered again after its tool message was appended (the
\* resumption before it failed in the completion service): the handler found
\* a call of the current turn among the existing tool ids and skipped it.
C1_Witness ==
    \E r \in Slots :
        /\ Active(r) /\ IsResume(r) /\ reqs[r].guarded
        /\ \E i \in ToolIndexes(Transcript(r)) :
              Transcript(r)[i].tool_call_id
                  \in PendingIds(heap[reqs[r].conv].pending_calls)

\* C2: whenever the completion service is invoked, every tool call listed in
\* an assistant message of the transcript sent has a tool message with its id.
C2_EveryCallAnswered ==
    \A r \in Slots :
        Active(r) =>
            \A i \in AssistantIndexes(Transcript(r)) :
                \A k \in 1..Len(Transcript(r)[i].tool_calls) :
                    \E j \in ToolIndexes(Transcript(r)) :
                        Transcript(r)[j].tool_call_id = Transcript(r)[i].tool_calls[k].id

\* C3: the completion-service invocations of one conversation, those of
\* startConversation and of every resumption together, number at most 5.
C3_InvocationCap ==
    \A s \in Sessions : invocations[s] <= max_iterations

\* C4: startConversation does not invoke the completion service again after
\* an assistant turn that holds a bridged call: it returned the batch instead.
C4_SuspendsOnBridgedCall ==
    \A r \in Slots :
        (Active(r) /\ reqs[r].kind = "start") =>
            \A i \in AssistantIndexes(reqs[r].messages) :
                \A k \in 1..Len(reqs[r].messages[i].tool_calls) :
                    reqs[r].messages[i].tool_calls[k].name # BridgeTool

\* C5: every reply that suspends a conversation lists the call id, tool and
\* parameters of every pending call registered for the session.
C5_SuspensionListsPendingCalls ==
    \A r \in Slots :
        Suspends(r) =>
            reqs[r].reply.calls = BatchCalls(Entry(reqs[r].session).pending_calls)

\* C6: a resolveOne or resolveBatch that does not fail answers "waiting"
\* exactly when, once the supplied results are stored, some pending call of
\* the session has no result.
LacksResult(conv) ==
    \E i \in 1..Len(conv.pending_calls) : conv.pending_calls[i].result = None

ResumeArrived(r) ==
    /\ ~Active(r)
    /\ reqs'[r] # reqs[r]
    /\ reqs'[r].kind \in {"one", "batch"}
    /\ reqs'[r].reply.status # "http500"

C6_WaitingIffUnresolved ==
    [][\A r \in Slots :
          ResumeArrived(r) =>
              ((reqs'[r].reply.status = "waiting")
                  <=> (/\ pending_conversations'[reqs'[r].session] # NoConv
                       /\ LacksResult(heap'[pending_conversations'[reqs'[r].session]])))]_vars

\* A resolution answered "waiting" while a call of the session with a stored
\* result sits beside one without.
C6_Witness ==
    \E r \in Slots :
        /\ Returned(r) /\ IsResume(r) /\ reqs[r].reply.status = "waiting"
        /\ LacksResult(Entry(reqs[r].session))
        /\ \E i \in 1..Len(Entry(reqs[r].session).pending_calls) :
              Entry(reqs[r].session).pending_calls[i].result # None

\* C7: once the result of a pending call is set, no later step changes it.
C7_ResultSetOnce ==
    [][\A s \in Sessions :
          (pending_conversations[s] # NoConv /\ pending_conversations'[s] # NoConv) =>
              \A i \in 1..Len(Entry(s).pending_calls) :
                  (/\ Entry(s).pending_calls[i].result # None
                   /\ i <= Len(heap'[pending_conversations'[s]].pending_calls)
                   /\ heap'[pending_conversations'[s]].pending_calls[i].call_id
                          = Entry(s).pending_calls[i].call_id)
                  => heap'[pending_conversations'[s]].pending_calls[i].result
                         = Entry(s).pending_calls[i].result]_vars

\* C8: when a request returns the final text for a session, the table holds
\* no entry for that session.
C8_NoEntryAfterAgentReply ==
    \A r \in Slots : AgentReply(r) => pending_conversations[reqs[r].session] = NoConv

\* C9: at most one request is between its first read and its last write of
\* a session's entry (a handler reads the entry when it arrives and may
\* write it until it returns).
C9_OneRequestPerSession ==
    \A r, q \in Slots :
        (Active(r) /\ Active(q) /\ reqs[r].session = reqs[q].session) => r = q

\* C10: a request for one session never creates, modifies or removes the
\* entry of another session.
C10_OtherSessionsUntouched ==
    [][\A r \in Slots :
          reqs'[r] # reqs[r] =>
              \A s \in Sessions \ {reqs'[r].session} :
                  /\ pending_conversations'[s] = pending_conversations[s]
                  /\ pending_conversations[s] # NoConv =>
                         heap'[pending_conversations[s]] = heap[pending_conversations[s]]]_vars

\* C11: once startConversation for a session is at its first
\* completion-service call the table holds no entry for the session, and a
\* resolveOne or resolveBatch that arrives while the session has no entry
\* fails with the not-found failure and resumes nothing: table and
\* conversation objects stay as they were.
StartArrived(r) == ~Active(r) /\ reqs'[r] # reqs[r] /\ reqs'[r].kind = "start"

LateArrived(r) ==
    /\ ~Active(r)
    /\ reqs'[r] # reqs[r]
    /\ reqs'[r].kind \in {"one", "batch"}
    /\ pending_conversations[reqs'[r].session] = NoConv

C12_NotFoundToldApart ==
    \A r \in Slots :
        (/\ Returned(r) /\ reqs[r].kind = "one"
         /\ reqs[r].reply.text \in {SESSION_NOT_FOUND, CALL_NOT_FOUND})
        => reqs[r].reply.status # INTERNAL_FAILURE

\* C13: on an existing entry resolveBatch treats a batch as it treats the
\* same batch without the items whose callId is not pending: it does not
\* fail, stores the same results and returns the same outcome.
WithoutUnknown(s, b) == SelectSeq(b, LAMBDA it : it.callId \in KnownIds(s))

C13_UnknownIdsSkipped ==
    \A s \in Sessions :
        pending_conversations[s] # NoConv =>
            \A b \in Batches(s) :
                LET with == ToolReplyBatch(Work(1, "batch", s), b)
                    without == ToolReplyBatch(Work(1, "batch", s), WithoutUnknown(s, b))
                IN /\ with.reply.status # INTERNAL_FAILURE
                   /\ [with EXCEPT !.skipped = FALSE] = without

\* A resolveBatch that held an item for a callId that is not pending stored
\* the other results and resumed the conversation.
C13_Witness ==
    \E r \in Slots :
        /\ Active(r) /\ reqs[r].kind = "batch" /\ reqs[r].skipped
        /\ Unresolved(heap[reqs[r].conv].pending_calls) = {}

\* C14: in every transcript the tool messages of the bridged calls of one
\* assistant turn stand in the order of the turn's tool-call list, whatever
\* the order in which resolveOne and resolveBatch delivered the results.
Position(calls, id) == CHOOSE k \in 1..Len(calls) : calls[k].id = id

BridgedIds(calls) == {calls[k].id : k \in {x \in 1..Len(calls) : calls[x].name = BridgeTool}}

C14_ReplayInRegistrationOrder ==
    \A msgs \in Transcripts :
        \A a \in AssistantIndexes(msgs) :
            \A i, j \in ToolIndexes(msgs) :
                (/\ i < j
                 /\ msgs[i].tool_call_id \in BridgedIds(msgs[a].tool_calls)
                 /\ msgs[j].tool_call_id \in BridgedIds(msgs[a].tool_calls))
                => Position(msgs[a].tool_calls, msgs[i].tool_call_id)
                       < Position(msgs[a].tool_calls, msgs[j].tool_call_id)

\* The result of the first call of a turn was delivered by resolveOne after
\* the result of the second: the replay appended the two tool messages, the
\* first call's first, and the conversation was resumed.
C14_Witness ==
    \E r \in Slots :
        /\ Active(r) /\ reqs[r].kind = "one" /\ ~reqs[r].guarded
        /\ LET msgs == Transcript(r)
               last == LastToolCalls(msgs, Len(msgs))
           IN /\ Len(last) = 2
              /\ reqs[r].call_id = last[1].id
              /\ msgs[Len(msgs)].role = "tool"
              /\ msgs[Len(msgs)].tool_call_id = last[2].id
              /\ msgs[Len(msgs) - 1].role = "tool"
              /\ msgs[Len(msgs) - 1].tool_call_id = last[1].id

\* C15: a startConversation request invokes the completion service at most
\* 5 times, and returns when the fifth invocation is answered, whatever the
\* answer (a tool request included).
C15_StartReturnsWithinCap ==
    [][\A r \in Slots :
          (reqs'[r].kind = "start" /\ reqs'[r].pc = "llm") =>
              /\ invocations'[reqs'[r].session] <= max_iterations
              /\ ~(Active(r) /\ invocations[reqs[r].session] = max_iterations)]_vars

\* A startConversation that was answered with a tool request five times
\* returned its final reply: five invocations, five or more tools executed.
C15_Witness ==
    \E r \in Slots :
        /\ Returned(r) /\ reqs[r].kind = "start" /\ reqs[r].reply.status = "final"
        /\ invocations[reqs[r].session] = max_iterations
        /\ Len(reqs[r].reply.log) >= max_iterations

\* C17: when a handler executed a local tool that raised, the request goes
\* on: at its next completion-service call the transcript holds a tool
\* message with the call's id and the error payload, and a tool message for
\* the call that follows it in the turn when that one is not bridged.
Executed(r) == {reqs[r].log[i].id : i \in 1..Len(reqs[r].log)}

HasToolMessage(msgs, id, payloads) ==
    \E j \in ToolIndexes(msgs) :
        msgs[j].tool_call_id = id /\ msgs[j].content \in payloads

C17_RaisingToolAnswered ==
    \A r \in Slots :
        Active(r) =>
            \A a \in AssistantIndexes(Transcript(r)) :
                LET calls == Transcript(r)[a].tool_calls
                IN \A k \in 1..Len(calls) :
                      (/\ calls[k].id \in Executed(r)
                       /\ calls[k].name = LocalTool /\ calls[k].raises)
                      => /\ HasToolMessage(Transcript(r), calls[k].id, {"status_error"})
                         /\ (k < Len(calls) /\ calls[k + 1].name # BridgeTool)
                                => HasToolMessage(Transcript(r), calls[k + 1].id,
                                                  {"result", "status_error",
                                                   "not_implemented"})

\* A turn whose first call raised and whose second call returned: both have
\* their tool message, and the completion service is invoked again.
C17_Witness ==
    \E r \in Slots :
        /\ Active(r)
        /\ \E a \in AssistantIndexes(Transcript(r)) :
              LET calls == Transcript(r)[a].tool_calls
              IN /\ Len(calls) = 2
                 /\ calls[1].name = LocalTool /\ calls[1].raises
                 /\ calls[1].id \in Executed(r)
                 /\ HasToolMessage(Transcript(r), calls[1].id, {"status_error"})
                 /\ HasToolMessage(Transcript(r), calls[2].id, {"result"})

\* C16: the text a request returns when its loop ends is the non-empty
\* content of the answer just received or, that being empty, the last
\* non-empty assistant content of the transcript it had sent; when there is
\* none it is the apology, in startConversation, resolveOne and resolveBatch
\* alike.
AnswerTexts == {resp.content : resp \in FinalResponses} \ {""}

C16_ReplyIsLastAssistantText ==
    [][\A r \in Slots :
          (/\ Active(r)
           /\ reqs'[r].pc = "returned"
           /\ reqs'[r].reply.status \in {"final", "completed"})
          => reqs'[r].reply.text
                 \in AnswerTexts
                     \cup {LastAssistantContent(Transcript(r), Len(Transcript(r)),
                                                APOLOGY)}]_vars

Smallest(rows) == CHOOSE k \in 1..Len(rows) : \A j \in 1..Len(rows) : rows[k].t <= rows[j].t
Largest(rows) == CHOOSE k \in 1..Len(rows) : \A j \in 1..Len(rows) : rows[k].t >= rows[j].t
Duration(rows) == rows[Largest(rows)].t - rows[Smallest(rows)].t
Computed == stat.pc \in {"baseline", "outliers"} /\ stat.rows # <<>>

\* The rows whose timestamp lies in [min + i * width, min + (i + 1) * width]
\* with width = duration / count.
InClaimedWindow(rows, count, i) ==
    SelectSeq(rows, LAMBDA row :
        /\ rows[Smallest(rows)].t * count + i * Duration(rows) <= row.t * count
        /\ row.t * count <= rows[Smallest(rows)].t * count + (i + 1) * Duration(rows))

\* C18: the records counted in window i of baseline and of outlier
\* detection are those of the closed interval
\* [minTimestamp + i * width, minTimestamp + (i + 1) * width] with
\* width = duration / windowCount: baseline counts the numeric samples of
\* that interval, outlier detection reports the window exactly when the
\* interval holds 3 numeric samples or more.
ClaimedSamples(i) ==
    Len(SelectSeq(InClaimedWindow(stat.rows, stat.result.num_windows, i),
                  LAMBDA row : row.v # Null))

C18_WindowsTileTheDuration ==
    Computed =>
        /\ stat.pc = "baseline" =>
               \A k \in 1..Len(stat.result.windows) :
                   stat.result.windows[k].fields.sample_count
                       = ClaimedSamples(stat.result.windows[k].window_index)
        /\ stat.pc = "outliers" =>
               \A i \in 0..(stat.result.num_windows - 1) :
                   (\E k \in 1..Len(stat.result.outliers) :
                        stat.result.outliers[k].window_index = i)
                   <=> ClaimedSamples(i) >= 3

\* C19: the number of windows of baseline and of outlier detection is
\* max(1, floor(duration / nominal size)): 1 when the duration is below the
\* nominal size, else the n with n * size <= duration < (n + 1) * size.
C19_WindowCount ==
    Computed =>
        LET n == stat.result.num_windows
            d == Duration(stat.rows)
            size == stat.window_size_ms
        IN /\ stat.pc = "baseline" => Len(stat.result.windows) = n
           /\ d < size => n = 1
           /\ d >= size => (n * size <= d /\ d < (n + 1) * size)

\* Records spanning a duration of 5 with nominal size 2: two windows.
C19_Witness ==
    /\ stat.pc = "baseline" /\ stat.rows # <<>>
    /\ Duration(stat.rows) = 5 /\ stat.window_size_ms = 2
    /\ Len(stat.result.windows) = 2

\* C20: in a reported window (3 numeric samples or more) a sample is an
\* outlier exactly when it lies strictly above mean + sigma * std or strictly
\* below mean - sigma * std, for the population mean and std of the window's
\* samples, and its deviation is |value - mean| / std to the hundredth;
\* samples 0,0,0,0,10 give no outlier at sigma 2.5 and only the 10, with
\* deviation 2.0, at sigma 1.
StrictlyBeyond(v, vals, sigma10) ==
    LET n == Len(vals)
        s == Sum(vals)
        m == n * SumSq(vals) - s * s
    IN \/ n * v - s > 0 /\ 100 * (n * v - s) * (n * v - s) > sigma10 * sigma10 * m
       \/ n * v - s < 0 /\ 100 * (s - n * v) * (s - n * v) > sigma10 * sigma10 * m

IsDeviation(d, v, vals) ==
    LET n == Len(vals)
        s == Sum(vals)
        m == n * SumSq(vals) - s * s
        e == 40000 * (n * v - s) * (n * v - s)
    IN IF m = 0 THEN d = 0
       ELSE (2 * d - 1) * (2 * d - 1) * m <= e /\ e < (2 * d + 1) * (2 * d + 1) * m

C20_OutlierIffBeyondThreshold ==
    (stat.pc = "outliers" /\ stat.rows # <<>>) =>
        \A k \in 1..Len(stat.result.outliers) :
            LET rp == stat.result.outliers[k]
                recs == window_records(stat.rows, stat.window_size_ms, rp.window_index)
                vals == values(recs)
                flagged(row) == \E p \in 1..Len(rp.outlier_points) :
                                   /\ rp.outlier_points[p].timestamp = row.t
                                   /\ rp.outlier_points[p].value = row.v
            IN /\ Len(vals) >= 3
               /\ \A j \in 1..Len(recs) :
                     recs[j].v # Null =>
                         (flagged(recs[j])
                             <=> StrictlyBeyond(recs[j].v, vals, stat.threshold_sigma10))
               /\ \A p \in 1..Len(rp.outlier_points) :
                     /\ \E j \in 1..Len(recs) :
                           recs[j].t = rp.outlier_points[p].timestamp
                     /\ IsDeviation(rp.outlier_points[p].deviation_sigma,
                                    rp.outlier_points[p].value, vals)
               /\ (vals = <<0, 0, 0, 0, 10>> /\ stat.threshold_sigma10 = 25)
                      => rp.outlier_points = <<>>
               /\ (vals = <<0, 0, 0, 0, 10>> /\ stat.threshold_sigma10 = 10)
                      => /\ Len(rp.outlier_points) = 1
                         /\ rp.outlier_points[1].value = 10
                         /\ rp.outlier_points[1].deviation_sigma = 200

\* The samples 0,0,0,0,10 in one window at sigma 1: the 10 is flagged.
C20_Witness ==
    /\ stat.pc = "outliers" /\ stat.threshold_sigma10 = 10
    /\ Len(stat.result.outliers) = 1
    /\ values(window_records(stat.rows, stat.window_size_ms, 0)) = <<0, 0, 0, 0, 10>>
    /\ stat.result.total_outliers = 1

\* C21: when the session's stream is empty or has fewer than 10 records the
\* two analysis tools return a result (they do not raise) that is not ok,
\* with empty findings: no window was computed.
C21_InsufficientDataNotOk ==
    (stat.pc \in {"baseline", "outliers"} /\ Len(stat.stream_data) < MinRecords) =>
        /\ stat.result.ok = FALSE
        /\ stat.result.findings = <<>>

\* A known session with a well-formed stream of 9 records: insufficient.
C21_Witness ==
    /\ stat.pc = "baseline" /\ stat.known /\ ~stat.malformed
    /\ Len(stat.stream_data) = MinRecords - 1
    /\ stat.result.error = "Insufficient data for analysis"

Traced == stat.pc = "traced" /\ stat.known
Found == stat.result.findings[1].nearby_events

InRange(e) ==
    /\ stat.target_timestamp_ms - stat.time_window_ms <= e.t
    /\ e.t <= stat.target_timestamp_ms + stat.time_window_ms

\* C22: traceCausalChain returns every session event with
\* target - window <= t <= target + window, whatever its other fields, and
\* no other event: as many results carry a timestamp as events in the
\* range do, and no result lies outside the range.
C22_ExactlyTheEventsInRange ==
    Traced =>
        /\ \A k \in 1..Len(Found) :
              InRange([t |-> Found[k].timestamp_ms])
        /\ \A tm \in 0..MaxEventTime :
              Len(SelectSeq(Found, LAMBDA x : x.timestamp_ms = tm))
                  = Len(SelectSeq(stat.events, LAMBDA e : e.t = tm /\ InRange(e)))

\* C23: the events returned are in ascending order of absolute distance to
\* the target, those at one distance in the order of the session's event
\* list, and the k-th has proximity rank k.
AtDistance(xs, d) == SelectSeq(xs, LAMBDA x : Abs(x.t - stat.target_timestamp_ms) = d)

Selected ==
    SelectSeq(stat.events,
              LAMBDA e : nearby(e, stat.target_timestamp_ms, stat.time_window_ms))

C23_OrderedByProximity ==
    Traced =>
        /\ \A k \in 1..Len(Found) : Found[k].proximity_rank = k
        /\ \A j, k \in 1..Len(Found) :
              j < k => Abs(Found[j].time_delta_ms) <= Abs(Found[k].time_delta_ms)
        /\ \A d \in 0..MaxEventTime :
              AtDistance([k \in 1..Len(Found) |->
                             [t |-> Found[k].timestamp_ms, text |-> Found[k].text]], d)
                  = AtDistance(Selected, d)

\* An event before the target, one on it, one after it at the distance of
\* the first: the one on the target is ranked first, the other two keep
\* the order of the session.
C23_Witness ==
    /\ Traced /\ Len(Found) = 3
    /\ Found[1].time_delta_ms = 0
    /\ Found[2].time_delta_ms = -1 /\ Found[2].text = "a"
    /\ Found[3].time_delta_ms = 1 /\ Found[3].text = "b"

MetricComputed == stat.pc = "computed"

\* C24: every MetricResult returned by metrics_compute, for any session
\* content, any metric name and any session id (unknown ones included), has
\* a null value whenever ok is false.
C24_NoValueWhenNotOk ==
    (MetricComputed /\ ~stat.result.raised /\ ~stat.result.ok)
        => stat.result.value = Null

\* The RC_CHANNELS stream is indexed but no event tells of a loss of the RC
\* signal: first_rc_loss is not ok and has no value.
C24_Witness ==
    /\ MetricComputed /\ stat.known /\ stat.metric = "first_rc_loss"
    /\ "RC_CHANNELS" \in stat.session.index /\ Len(stat.session.events) = 2
    /\ ~stat.result.raised /\ ~stat.result.ok /\ stat.result.value = Null

\* The computation of the metric on the session meets a value it cannot
\* handle.
ComputationFails ==
    LET s == stat.session
        texts == with_text(s.events)
    IN \/ stat.metric = "max_battery_temp"
          /\ \E k \in 1..Len(s.battery) : s.battery[k].v = Bad
       \/ stat.metric = "first_rc_loss"
          /\ \/ \E k \in 1..Len(texts) : texts[k].text = BadText
             \/ Len(SelectSeq(texts, LAMBDA e : e.text = "RC LOST" /\ e.t = Null)) = 2
       \/ stat.metric = "flight_time"
          /\ s.meta.tStartMs = Bad /\ s.meta.tEndMs # Null
       \/ stat.metric = "missing_segments"
          /\ \E k \in 1..Len(s.gaps) : s.gaps[k].durationMs = Bad

\* C25: metrics_compute never raises: for an unknown session id, for a
\* metric name outside the eight named metrics, and for a session whose
\* data makes the computation fail, it returns a MetricResult with
\* ok = false.
C25_NeverRaises ==
    MetricComputed =>
        /\ ~stat.result.raised
        /\ (~stat.known \/ stat.metric \notin NamedMetrics \/ ComputationFails)
               => ~stat.result.ok

\* Two events tell of an RC loss and neither has a timestamp: sorting them
\* fails, and the result is not ok.
C25_Witness ==
    /\ MetricComputed /\ stat.known /\ stat.metric = "first_rc_loss"
    /\ Len(stat.session.events) = 2
    /\ \A k \in 1..2 : stat.session.events[k].text = "RC LOST"
                          /\ stat.session.events[k].t = Null
    /\ ~stat.result.raised /\ ~stat.result.ok

\* C26: between requests, every entry of the table has at least one pending
\* call whose result is unset: an entry whose calls are all resolved has
\* been removed by the time the resolving request returns.
C26_EntryHasUnresolvedCall ==
    NoneActive =>
        \A s \in Sessions :
            pending_conversations[s] # NoConv => LacksResult(Entry(s))

\* C27: each execution of a local tool appears exactly once in the
\* execution log of the reply that ends the conversation, executions made
\* before a suspension and turns with several bridged calls included.  The
\* completion service issues every call id once, so no two entries of the
\* log are for one call id.
C27_ExecutionLoggedOnce ==
    \A r \in Slots :
        AgentReply(r) =>
            \A i, j \in 1..Len(reqs[r].reply.log) :
                reqs[r].reply.log[i].id = reqs[r].reply.log[j].id => i = j

\* C28: when two resolveOne requests delivering the last two unresolved
\* calls of one session are interleaved at the granularity of their reads
\* and writes of the shared table, the stored transcript still receives
\* exactly one tool message per callId and the conversation is resumed by
\* only one of the two requests: the completion service is invoked once by
\* the start and once by the resumption.
C28_ResumedOnce ==
    /\ \A s \in Sessions :
          \A i, j \in ToolIndexes(Entry(s).messages) :
              Entry(s).messages[i].tool_call_id = Entry(s).messages[j].tool_call_id
                  => i = j
    /\ invocations[ChainSession] <= 2

\* C29: no transcript contains a tool message for a bridged callId while
\* the result of its pending call is unset.
C29_NoToolMessageWhileUnset ==
    \A s \in Sessions :
        \A i \in Unresolved(Entry(s).pending_calls) :
            \A msgs \in Transcripts :
                \A j \in ToolIndexes(msgs) :
                    msgs[j].tool_call_id # Entry(s).pending_calls[i].call_id

\* What a pending call is apart from its result.
Registered(conv) ==
    [i \in 1..Len(conv.pending_calls) |->
        [conv.pending_calls[i] EXCEPT !.result = None]]

\* C30: a resolveOne or resolveBatch that returns WaitingStatus changes
\* nothing but result fields of pending calls of its session: the messages,
\* the iteration, the pending callIds and the tool execution log of the
\* entry are unchanged, so are the entries of the other sessions, and the
\* completion service is not invoked: the request returns in the step in
\* which it arrived, never from a completion-service call.
C30_WaitingChangesResultsOnly ==
    [][\A r \in Slots :
          (reqs'[r].pc = "returned" /\ reqs'[r].reply.status = "waiting"
             /\ (heap' # heap \/ reqs' # reqs))
          => LET s == reqs'[r].session
             IN /\ ~Active(r)
                /\ pending_conversations' = pending_conversations
                /\ pending_conversations[s] # NoConv
                /\ heap'[pending_conversations[s]].messages = Entry(s).messages
                /\ heap'[pending_conversations[s]].iteration = Entry(s).iteration
                /\ heap'[pending_conversations[s]].tool_execution_log
                       = Entry(s).tool_execution_log
                /\ Registered(heap'[pending_conversations[s]]) = Registered(Entry(s))
                /\ \A o \in ObjIds : o # pending_conversations[s] => heap'[o] = heap[o]]_vars

\* A batch that delivered one of two pending calls was answered "waiting".
C30_Witness ==
    \E r \in Slots :
        /\ Returned(r) /\ reqs[r].kind = "batch" /\ reqs[r].reply.status = "waiting"
        /\ Len(Entry(reqs[r].session).pending_calls) = 2
        /\ Cardinality(Unresolved(Entry(reqs[r].session).pending_calls)) = 1

\* The assistant message a message at index j answers: the last one before it.
LastAssistantBefore(msgs, j) ==
    SetMax({a \in AssistantIndexes(msgs) : a < j})

CallIds(calls) == {calls[k].id : k \in 1..Len(calls)}

\* C31: each tool message appended on resumption (the tool messages of
\* bridged calls) carries a callId listed in the tool calls of the most
\* recent assistant message of the stored transcript and stands after that
\* assistant message and before any later one; callIds of earlier, already
\* answered turns that are still pending calls produce no new message.
C31_ReplayAnswersLastTurn ==
    \A msgs \in Transcripts :
        \A j \in ToolIndexes(msgs) :
            msgs[j].name = BridgeTool =>
                /\ \E a \in AssistantIndexes(msgs) : a < j
                /\ msgs[j].tool_call_id
                       \in CallIds(msgs[LastAssistantBefore(msgs, j)].tool_calls)

\* A conversation resumed for the second time: the call of the first turn is
\* still a pending call with its tool message before the second assistant
\* message, and the replay appended the message of the second turn's call
\* only.
C31_Witness ==
    \E r \in Slots :
        /\ Active(r) /\ IsResume(r)
        /\ LET msgs == Transcript(r)
               calls == heap[reqs[r].conv].pending_calls
           IN /\ Len(calls) = 2 /\ Len(msgs) >= 2
              /\ msgs[Len(msgs)].role = "tool"
              /\ msgs[Len(msgs)].tool_call_id = calls[2].call_id
              /\ msgs[Len(msgs) - 1].role = "assistant"
              /\ \E j \in ToolIndexes(msgs) :
                    j < Len(msgs) - 1 /\ msgs[j].tool_call_id = calls[1].call_id

\* A startConversation for session s arrived in this step and discarded the
\* entry of s.
Restarts(s) ==
    \E r \in Slots :
        /\ ~Active(r)
        /\ reqs'[r].kind = "start" /\ reqs'[r].session = s
        /\ reqs'[r].pc = "llm" /\ reqs'[r].cleaned

\* C32: an entry that still has an unresolved pending call is removed from
\* the table only by a startConversation for the same session id, never by
\* a resolveOne or a resolveBatch.
C32_UnresolvedEntryPersists ==
    [][\A s \in Sessions :
          (/\ pending_conversations[s] # NoConv
           /\ LacksResult(Entry(s))
           /\ pending_conversations'[s] = NoConv)
          => Restarts(s)]_vars

\* What resolveOne(s, id, result) and resolveBatch(s, [{id, result}]) do when
\* they arrive now.
Redelivered(s, id, result) ==
    {ToolReply([Work(1, "one", s) EXCEPT !.call_id = id], id, result),
     ToolReplyBatch(Work(1, "batch", s), <<[callId |-> id, result |-> result]>>)}

\* C33: delivering again, with the same value, a result that is already
\* stored while another call of the session is unresolved leaves the entry
\* as it was and returns "waiting"; delivering it again after the
\* conversation ended with its final reply fails with the not-found failure,
\* which is no internal failure, and invokes no completion service.
C33_DuplicateDeliveryTolerated ==
    /\ \A s \in Sessions :
          \A i \in 1..Len(Entry(s).pending_calls) :
              (Entry(s).pending_calls[i].result # None /\ LacksResult(Entry(s)))
              => \A st \in Redelivered(s, Entry(s).pending_calls[i].call_id,
                                       Entry(s).pending_calls[i].result) :
                    /\ st.reply.status = "waiting"
                    /\ st.heap = heap /\ st.table = pending_conversations
    /\ \A r \in Slots :
          (AgentReply(r) /\ IsResume(r))
          => \A id \in 1..MaxIds, result \in Results :
                \A st \in Redelivered(reqs[r].session, id, result) :
                    /\ st.reply.text \in {SESSION_NOT_FOUND, CALL_NOT_FOUND}
                    /\ st.reply.status # INTERNAL_FAILURE
                    /\ st.heap = heap /\ st.table = pending_conversations

AllLocal(calls) == calls # <<>> /\ \A k \in 1..Len(calls) : calls[k].name # BridgeTool

\* C34: for an assistant turn whose tool calls are all local, the transcript
\* is extended by exactly one tool message per requested call, in the order
\* of the calls and each keyed by its call's id, before the completion
\* service is asked again (and before any other message is appended).
C34_LocalTurnAnsweredInOrder ==
    \A msgs \in Transcripts :
        \A a \in AssistantIndexes(msgs) :
            AllLocal(msgs[a].tool_calls) =>
                LET calls == msgs[a].tool_calls
                IN /\ a + Len(calls) <= Len(msgs)
                   /\ \A k \in 1..Len(calls) :
                         /\ msgs[a + k].role = "tool"
                         /\ msgs[a + k].tool_call_id = calls[k].id
                         /\ msgs[a + k].name = calls[k].name
                   /\ a + Len(calls) < Len(msgs)
                         => msgs[a + Len(calls) + 1].role # "tool"

\* The completion service is asked again after a turn of two local calls,
\* the first of which raised: the transcript ends with their two tool
\* messages in the order of the turn.
C34_Witness ==
    \E r \in Slots :
        /\ Active(r) /\ Len(Transcript(r)) >= 3
        /\ LET msgs == Transcript(r)
               n == Len(msgs)
           IN /\ msgs[n - 2].role = "assistant"
              /\ Len(msgs[n - 2].tool_calls) = 2
              /\ AllLocal(msgs[n - 2].tool_calls)
              /\ msgs[n - 2].tool_calls[1].raises
              /\ msgs[n - 1].tool_call_id = msgs[n - 2].tool_calls[1].id
              /\ msgs[n].tool_call_id = msgs[n - 2].tool_calls[2].id

NonSuccess == {"not_implemented", "status_error"}

\* Answers of the completion service that ask for unregistered tools only.
UnknownOnly ==
    {[content |-> "", tool_calls |-> WithIds(sh, nextId)] :
        sh \in ShapeSeqs({[name |-> UnknownTool, sessionId |-> ChainSession,
                           raises |-> FALSE]})}

\* C35: a tool call naming a tool that is neither a local function nor the
\* bridged tool does not fail the request and does not suspend the
\* conversation: a tool message keyed by the call's id with a non-success
\* payload is appended and the loop continues (up to its cap), in
\* startConversation, resolveOne and resolveBatch.
C35_UnknownToolAnswered ==
    \A r \in Slots :
        Active(r) =>
            /\ \A a \in AssistantIndexes(Transcript(r)) :
                  LET calls == Transcript(r)[a].tool_calls
                  IN \A k \in 1..Len(calls) :
                        (calls[k].name = UnknownTool /\ calls[k].id \in Executed(r))
                        => HasToolMessage(Transcript(r), calls[k].id, NonSuccess)
            /\ \A resp \in UnknownOnly :
                  LET st == AfterResponse(Resume(r), resp)
                  IN /\ st.reply.status \in {"none", "final", "completed"}
                     /\ st.reply = NoReply <=> reqs[r].iteration < max_iterations
                     /\ st.reply = NoReply => st.pc = "llm"
                     /\ \A k \in 1..Len(resp.tool_calls) :
                           HasToolMessage(Msgs(st), resp.tool_calls[k].id, NonSuccess)

\* A resolveBatch resumed the conversation, was asked for an unregistered
\* tool, answered it with the error payload and asks the completion service
\* again.
C35_Witness ==
    \E r \in Slots :
        /\ Active(r) /\ reqs[r].kind = "batch" /\ Len(Transcript(r)) >= 2
        /\ LET msgs == Transcript(r)
           IN /\ msgs[Len(msgs)].role = "tool"
              /\ msgs[Len(msgs)].name = UnknownTool
              /\ msgs[Len(msgs)].content = "status_error"
              /\ msgs[Len(msgs)].tool_call_id \in Executed(r)

\* The number of numeric samples of the rows with start <= t <= end, the
\* bounds being kept times count.
NumericSamplesIn(rows, count, start, end) ==
    Cardinality({k \in 1..Len(rows) :
                    /\ rows[k].v # Null
                    /\ start <= rows[k].t * count
                    /\ rows[k].t * count <= end})

\* The numeric samples of the i-th window of the outlier detection.
SamplesOfWindow(i) ==
    NumericSamplesIn(stat.rows, stat.result.num_windows,
                     window_start(stat.rows, stat.window_size_ms, i),
                     window_end(stat.rows, stat.window_size_ms, i))

C37_SampleCountAndNulls ==
    (stat.pc = "baseline" /\ stat.rows # <<>>) =>
        /\ Len(stat.result.windows) = stat.result.num_windows
        /\ \A k \in 1..Len(stat.result.windows) :
              LET w == stat.result.windows[k]
                  f == w.fields
                  AllNull == /\ f.mean = Null /\ f.variance_num = Null
                             /\ f.min = Null /\ f.max = Null
                  NoneNull == /\ f.mean # Null /\ f.variance_num # Null
                              /\ f.min # Null /\ f.max # Null
              IN /\ f.sample_count
                       = NumericSamplesIn(stat.rows, stat.result.num_windows,
                                          w.start_ms, w.end_ms)
                 /\ f.sample_count < 2 => AllNull
                 /\ f.sample_count >= 2 => NoneNull

\* A baseline with a window of one numeric sample (all null) and a window of
\* two (none null).
C37_Witness ==
    /\ stat.pc = "baseline" /\ stat.rows # <<>>
    /\ \E k \in 1..Len(stat.result.windows) :
          /\ stat.result.windows[k].fields.sample_count = 1
          /\ stat.result.windows[k].fields.mean = Null
    /\ \E k \in 1..Len(stat.result.windows) :
          /\ stat.result.windows[k].fields.sample_count = 2
          /\ stat.result.windows[k].fields.mean # Null

\* The gps items of the session measured that report a fix type below 3.
LostFix ==
    {k \in 1..Len(stat.session.gps) :
        stat.session.gps[k].v # Null /\ stat.session.gps[k].v < 3}

\* Every gps item has a timestamp and a numeric or absent fix type.
WellFormedGps ==
    \A k \in 1..Len(stat.session.gps) :
        stat.session.gps[k].t # Null /\ stat.session.gps[k].v # Bad

AltValues == {stat.session.alt[k].v : k \in 1..Len(stat.session.alt)} \ {Null}
GposValues == {stat.session.gpos[k].v : k \in 1..Len(stat.session.gpos)} \ {Null}

\* C39: max_altitude takes its value from the relative-altitude position
\* stream (gpos) only when the dedicated altitude stream (alt) has no
\* non-null sample, otherwise it reports the maximum of the dedicated
\* altitude stream; when neither stream has a non-null sample it returns
\* ok = false.  The values read are numbers.
C39_AltitudeFallbackOrder ==
    (/\ MetricComputed /\ stat.known /\ stat.metric = "max_altitude"
     /\ Bad \notin AltValues
     /\ AltValues = {} => Bad \notin GposValues) =>
        /\ ~stat.result.raised
        /\ AltValues # {} =>
              stat.result.ok /\ stat.result.value = SetMax(AltValues)
        /\ (AltValues = {} /\ GposValues # {}) =>
              stat.result.ok /\ stat.result.value = SetMax(GposValues)
        /\ (AltValues = {} /\ GposValues = {}) =>
              ~stat.result.ok /\ stat.result.value = Null

\* The altitude stream has items, all without a value, and the value comes
\* from the position stream.
C39_Witness ==
    /\ MetricComputed /\ stat.known /\ stat.metric = "max_altitude"
    /\ stat.session.alt # <<>> /\ AltValues = {}
    /\ GposValues = {7}
    /\ stat.result.ok /\ stat.result.value = 7

====
